---- MODULE Spec2Model ----
(***************************************************************************)
(* Model of the numeric core of lsst.pipe.analysis:                        *)
(*   - Analysis.calculateStats           (analysis.py)                     *)
(*   - colorColorPolyFitPlot, fit part   (colorAnalysis.py)                *)
(*   - ColorColorDistance.__call__       (colorAnalysis.py)                *)
(*   - ColorAnalysisTask.plotStarColorColor, the batch of locus fits       *)
(*   - Analysis.calculateSysError         (analysis.py)                     *)
(*   - Analysis.plotAll, Analysis.stats, Enforcer.__call__ (analysis.py)   *)
(*   - ColorAnalysisRunner.getTargetList (colorAnalysis.py)                *)
(*   - VisitAnalysisTask.readSrcMatches  (visitAnalysis.py)                *)
(*                                                                         *)
(* Numbers.  Floating point values are modelled exactly: a value is either *)
(* NaN or a rational num/den with den > 0.  Input data are integers.       *)
(* Comparisons with NaN are false, arithmetic with NaN gives NaN, as in    *)
(* IEEE arithmetic; rounding error is not modelled.                        *)
(***************************************************************************)
EXTENDS Integers, Sequences, FiniteSets, TLC

VARIABLES
    \* ---- Analysis.calculateStats --------------------------------------
    quantity,       \* the quantity array: a sequence of values
    selection,      \* the selection mask: a sequence of booleans
    forcedMean,     \* None or a value
    stats,          \* None before the call, the returned Stats after it
    repeat,         \* None, or the Stats returned by a second, identical call
    \* ---- colorColorPolyFitPlot ----------------------------------------
    fit,            \* the local state of one fit call (a record)
    \* ---- ColorColorDistance.__call__ ----------------------------------
    dist,           \* the state of one evaluator call (a record)
    \* ---- ColorAnalysisTask.plotStarColorColor -------------------------
    batch,          \* the state of one batch of locus fits (a record)
    \* ---- Analysis.calculateSysError ------------------------------------
    sysErr,         \* the state of one calculateSysError call (a record)
    \* ---- Analysis.plotAll, Analysis.stats, Enforcer.__call__ -----------
    plotAll,        \* the state of one plotAll call (a record)
    \* ---- ColorAnalysisRunner.getTargetList ---------------------------
    targetList,     \* the state of one getTargetList call (a record)
    \* ---- VisitAnalysisTask.readSrcMatches -----------------------------
    srcMatches      \* the state of one readSrcMatches call (a record)

vars == <<quantity, selection, forcedMean, stats, repeat, fit, dist, batch, sysErr,
          plotAll, targetList, srcMatches>>

None == [none |-> TRUE]

\* an optional range or line that is not given (None for a pair of numbers)
NoPair == <<>>

(***************************************************************************)
(* Values                                                                  *)
(***************************************************************************)
NaN == [nan |-> TRUE, num |-> 0, den |-> 1]

Rat(n, d) == [nan |-> FALSE, num |-> n, den |-> d]

Fin(n) == Rat(n, 1)

IsNaN(a) == a.nan

Abs(n) == IF n < 0 THEN -n ELSE n

\* a > b; false when either is NaN
Gt(a, b) == ~a.nan /\ ~b.nan /\ a.num * b.den > b.num * a.den

\* a = b as numbers; false when either is NaN
Eq(a, b) == ~a.nan /\ ~b.nan /\ a.num * b.den = b.num * a.den

Sub(a, b) ==
    IF a.nan \/ b.nan THEN NaN
    ELSE Rat(a.num * b.den - b.num * a.den, a.den * b.den)

AbsV(a) == IF a.nan THEN NaN ELSE Rat(Abs(a.num), a.den)

\* a * (n/d) for integers n, d with d > 0
Scale(a, n, d) == IF a.nan THEN NaN ELSE Rat(a.num * n, a.den * d)

RECURSIVE Gcd(_, _)
Gcd(a, b) == IF b = 0 THEN a ELSE Gcd(b, a % b)

RECURSIVE SumInts(_, _)
SumInts(f, S) ==
    IF S = {} THEN 0
    ELSE LET i == CHOOSE j \in S : TRUE IN f[i] + SumInts(f, S \ {i})

\* the indices of a mask that are set
TrueSet(mask) == {i \in DOMAIN mask : mask[i]}

\* the values f[i], i in S, as a sequence in non-decreasing order
RECURSIVE SortedInts(_, _)
SortedInts(f, S) ==
    IF S = {} THEN <<>>
    ELSE LET i == CHOOSE j \in S : \A k \in S : f[j] <= f[k]
         IN <<f[i]>> \o SortedInts(f, S \ {i})

\* np.percentile(., 25*k) of a sorted non-empty sequence of integers, times 4:
\* linear interpolation between the two nearest ranks
Percentile4(s, k) ==
    LET pos4 == (Len(s) - 1) * k
        lo   == pos4 \div 4
        rem  == pos4 % 4
    IN IF rem = 0 THEN 4 * s[lo + 1]
       ELSE 4 * s[lo + 1] + rem * (s[lo + 2] - s[lo + 1])

(***************************************************************************)
(* Analysis.calculateStats                                                 *)
(***************************************************************************)
\* AnalysisConfig.clip, the rejection threshold in units of the spread
ClipDefault == 4

\* a common denominator of the values q[i], i in S, none of them NaN
RECURSIVE CommonDen(_, _)
CommonDen(q, S) ==
    IF S = {} THEN 1
    ELSE LET i == CHOOSE j \in S : TRUE
             d == CommonDen(q, S \ {i})
         IN (d * q[i].den) \div Gcd(d, q[i].den)

\* the numerators of the values q[i], i in S, over the denominator D
Numerators(q, S, D) == [i \in S |-> q[i].num * (D \div q[i].den)]

\* np.percentile(quantity[selection], 25*k): NaN when a selected value is NaN
\* (and for no values at all, which calculateStats never asks for)
Quartile(q, sel, k) ==
    IF sel = {} \/ \E i \in sel : q[i].nan THEN NaN
    ELSE LET D == CommonDen(q, sel)
         IN Rat(Percentile4(SortedInts(Numerators(q, sel, D), sel), k), 4 * D)

\* quantity[good].mean(): NaN for an empty set or when a used value is NaN
MeanOf(q, good) ==
    IF good = {} \/ \E i \in good : q[i].nan THEN NaN
    ELSE LET D == CommonDen(q, good)
         IN Rat(SumInts(Numerators(q, good, D), good), D * Cardinality(good))

\* ((quantity[good] - mean)**2).mean(), the square of the reported stdev
MeanSquareAbout(q, good, mean) ==
    IF good = {} \/ mean.nan \/ \E i \in good : q[i].nan THEN NaN
    ELSE LET D == CommonDen(q, good)
             n == Numerators(q, good, D)
         IN Rat(SumInts([i \in good |-> (n[i] * mean.den - mean.num * D)
                                           * (n[i] * mean.den - mean.num * D)], good),
                D * D * mean.den * mean.den * Cardinality(good))

\* the branch taken when the selection is empty
EmptyStatsZeroMean ==
    [dataUsed |-> {}, num |-> 0, total |-> 0, mean |-> Fin(0), stdev |-> Fin(0),
     forcedMean |-> NaN, median |-> NaN, clip |-> NaN]

EmptyStats ==
    [dataUsed |-> {}, num |-> 0, total |-> 0, mean |-> NaN, stdev |-> NaN,
     forcedMean |-> NaN, median |-> NaN, clip |-> NaN]

\* selection & np.logical_not(np.abs(quantity - median) > clip)
UsedSetStrict(q, sel, median, clip) ==
    {i \in sel : Gt(clip, AbsV(Sub(q[i], median)))}

UsedSetUncentred(q, sel, median, clip) ==
    {i \in sel : ~Gt(AbsV(q[i]), clip)}

UsedSet(q, sel, median, clip) ==
    {i \in sel : ~Gt(AbsV(Sub(q[i], median)), clip)}

\* clip = self.config.clip*0.74*(quartiles[2] - quartiles[0])
ClipThresholdNoSigma(q1, q3) == Scale(Sub(q3, q1), ClipDefault, 1)

ClipThreshold(q1, q3) == Scale(Sub(q3, q1), ClipDefault * 74, 100)

\* mean = actualMean if forcedMean is None else forcedMean: the centre of stdev
ActiveMeanIgnoringForced(actualMean, fm) == actualMean

ActiveMean(actualMean, fm) == IF fm = None THEN actualMean ELSE fm

\* Stats(..., mean=actualMean, ..., forcedMean=forcedMean, ...): the mean field
ReportedMeanForced(actualMean, fm) == IF fm = None THEN actualMean ELSE fm

ReportedMean(actualMean, fm) == actualMean

\* The quantity array after a call: "quantity - median" and
\* "quantity[good].astype(np.float64) - mean" build new arrays, and no statement
\* assigns to an element of quantity or selection
QuantityCentred(q, selMask) ==
    [i \in DOMAIN q |-> Sub(q[i], Quartile(q, TrueSet(selMask), 2))]

QuantityAfterCall(q, selMask) == q

\* The Stats struct returned by calculateStats(quantity, selection, forcedMean).
\* dataUsed is the set of indices of the used mask; stdev holds the square of
\* the reported standard deviation (the square root is not rational).
calculateStats(q, selMask, fm) ==
    LET sel   == TrueSet(selMask)
        total == Cardinality(sel)
    IN IF total = 0 THEN EmptyStats
       ELSE LET q1     == Quartile(q, sel, 1)
                median == Quartile(q, sel, 2)
                q3     == Quartile(q, sel, 3)
                clip   == ClipThreshold(q1, q3)
                good   == UsedSet(q, sel, median, clip)
                actualMean == MeanOf(q, good)
                mean   == ActiveMean(actualMean, fm)
            IN [dataUsed |-> good, num |-> Cardinality(good), total |-> total,
                mean |-> ReportedMean(actualMean, fm),
                stdev |-> MeanSquareAbout(q, good, mean),
                forcedMean |-> fm, median |-> median, clip |-> clip]

(***************************************************************************)
(* Polynomials.  A coefficient list is [den, c]: the coefficients are      *)
(* c[k]/den with den > 0; np.polyfit and np.polyval order them highest     *)
(* degree first.  Fits are of order 1 (a line): c = <<slope, intercept>>.  *)
(***************************************************************************)
\* the same coefficients over the smallest denominator
Coeffs(den, c) ==
    LET g == Gcd(den, Gcd(Abs(c[1]), Abs(c[2])))
    IN [den |-> den \div g, c |-> <<c[1] \div g, c[2] \div g>>]

\* list(reversed(coeffs))
Reversed(p) == [den |-> p.den, c |-> <<p.c[2], p.c[1]>>]

\* np.polyval(p, x) times p.den, for an integer x (Horner, highest first)
PolyValNum(p, x) == p.c[1] * x + p.c[2]

\* y - np.polyval(p, x) times p.den: the residual of the point pt
ResidualNum(p, pt) == pt.y * p.den - PolyValNum(p, pt.x)

\* np.polyfit(xx[K], yy[K], 1) for a non-empty index set K: the least-squares
\* line; when all x of K are equal (and not 0) the system is rank deficient and
\* lstsq returns the minimum-norm solution in polyfit's column-scaled
\* variables, slope = mean(y)/(2 x0), intercept = mean(y)/2.
polyfit(pts, K) ==
    LET n   == Cardinality(K)
        Sx  == SumInts([i \in K |-> pts[i].x], K)
        Sy  == SumInts([i \in K |-> pts[i].y], K)
        Sxx == SumInts([i \in K |-> pts[i].x * pts[i].x], K)
        Sxy == SumInts([i \in K |-> pts[i].x * pts[i].y], K)
        D   == n * Sxx - Sx * Sx
        B   == n * Sxy - Sx * Sy
        x0  == pts[CHOOSE i \in K : TRUE].x
    IN IF D # 0 THEN Coeffs(n * D, <<n * B, Sy * D - B * Sx>>)
       ELSE Coeffs(2 * n * Abs(x0), <<IF x0 < 0 THEN -Sy ELSE Sy, Sy * Abs(x0)>>)

\* np.percentile(dy[K], 25*k) times 4*p.den, for a non-empty K
ResidualQuartile4(p, pts, K, k) ==
    Percentile4(SortedInts([i \in K |-> ResidualNum(p, pts[i])], K), k)

\* rej, the rejection factor of the residual clip
Rej == 3

\* np.logical_not(np.abs(dy) > clip), clip = rej*0.74*(q3 - q1), the quartiles
\* taken over K: the indices of all points within the clip.  Over an empty K
\* the quartiles are NaN, the comparison is false and every point is kept.
ClipKeep(p, pts, K) ==
    IF K = {} THEN DOMAIN pts
    ELSE LET iqr4 == ResidualQuartile4(p, pts, K, 3) - ResidualQuartile4(p, pts, K, 1)
         IN {i \in DOMAIN pts : ~(100 * 4 * Abs(ResidualNum(p, pts[i])) > Rej * 74 * iqr4)}

(***************************************************************************)
(* colorColorPolyFitPlot: the fit region                                   *)
(***************************************************************************)
\* (v > lo) & (v < hi) for a range <<lo, hi>>; every value when no range is given
InRange(v, range) ==
    range = NoPair \/ (v > range[1] /\ v < range[2])

\* (v > minPad) & (v < maxPad): the range widened by 0.07 of its span each side
InPaddedRange(v, range) ==
    \/ range = NoPair
    \/ /\ 100 * v > 100 * range[1] - 7 * (range[2] - range[1])
       /\ 100 * v < 100 * range[2] + 7 * (range[2] - range[1])

\* yy < fitLineUpper[0] + fitLineUpper[1]*xx
BelowUpper(pt, line) == line = NoPair \/ pt.y < line[1] + line[2] * pt.x

\* yy > fitLineLower[0] + fitLineLower[1]*xx
AboveLower(pt, line) == line = NoPair \/ pt.y > line[1] + line[2] * pt.x

SelectXRange(pts, in) == {i \in DOMAIN pts : InRange(pts[i].x, in.xFitRange)}

SelectYRange(pts, in) == {i \in DOMAIN pts : InRange(pts[i].y, in.yFitRange)}

SelectXRangePad(pts, in) == {i \in DOMAIN pts : InPaddedRange(pts[i].x, in.xFitRange)}

SelectYRangePad(pts, in) == {i \in DOMAIN pts : InPaddedRange(pts[i].y, in.yFitRange)}

SelectUpper(pts, in) == {i \in DOMAIN pts : BelowUpper(pts[i], in.fitLineUpper)}

SelectLower(pts, in) == {i \in DOMAIN pts : AboveLower(pts[i], in.fitLineLower)}

\* good = np.isfinite(xx) & np.isfinite(yy); xx, yy = xx[good], yy[good]
FinitePoints(raw) ==
    LET good == SelectSeq(raw, LAMBDA r : ~r.x.nan /\ ~r.y.nan)
    IN [i \in 1..Len(good) |-> [x |-> good[i].x.num, y |-> good[i].y.num]]

\* order, the degree of the fitted polynomial
Order == 1

\* the forced initial guess of the near-vertical strategy:
\* [10.0, -10.0*(xFitRange[0] + (xFitRange[1] - xFitRange[0])/3.0)]
VerticalGuessMidRange(range) ==
    Coeffs(2, <<20, -10 * (range[1] + range[2])>>)

VerticalGuess(range) ==
    Coeffs(3, <<30, -10 * (2 * range[1] + range[2])>>)

\* orthogonalRegression(xx[K], yy[K], order, initialGuess): the coefficients,
\* highest degree first, of a minimiser of the summed squared distance of the
\* points to the curve, found from the seed initialGuess (lowest degree first).
\* The minimiser is not rational in general; when every point lies on the seed
\* the seed is the minimum and is returned, otherwise the solver returns one
\* of its candidates: the seed, or the least-squares line of the points.
orthogonalRegression(pts, K, initialGuess) ==
    IF K # {} /\ \A i \in K : ResidualNum(Reversed(initialGuess), pts[i]) = 0
    THEN {Reversed(initialGuess)}
    ELSE {Reversed(initialGuess)} \cup (IF K = {} THEN {} ELSE {polyfit(pts, K)})

(***************************************************************************)
(* colorColorPolyFitPlot: one call, from the finite filter to the last     *)
(* orthogonal regression.  fit.in holds the arguments, the other fields    *)
(* the local variables; olsFits and odrCalls record, in order, the index   *)
(* sets handed to np.polyfit inside the loop and to orthogonalRegression   *)
(* (for the latter with the seed given and the coefficients it returned).  *)
(* The density estimate between the two stages changes no variable of the  *)
(* fit but can raise; the plotting and the locus-quality statistics that   *)
(* follow the regression do not change the fit.                            *)
(***************************************************************************)
\* nKeep before "nKeep = np.sum(keep)" has run
NotCounted == -1

\* keep = np.logical_not(np.abs(dy) > clip): the keep set of the loop is
\* assigned anew from the residuals of all points
OlsClipIntersect(poly, pts, keep0) == keep0 \cap ClipKeep(poly, pts, keep0)

OlsClip(poly, pts, keep0) == ClipKeep(poly, pts, keep0)

\* "if nKeep < order" and "if nKeepOdr < order"
NotEnoughBelowOrder(n) == n < Order - 1

NotEnough(n) == n < Order

FitCall(in) ==
    [pc |-> "start", in |-> in, pts |-> <<>>,
     selectXRange |-> {}, selectYRange |-> {}, selectUpper |-> {}, selectLower |-> {},
     select |-> {}, keep |-> {}, ii |-> 0, poly |-> None, initialGuess |-> None,
     nKeep |-> NotCounted, keepOdr |-> {}, orthRegCoeffs |-> None, error |-> "",
     ret |-> None, olsFits |-> <<>>, odrCalls |-> <<>>]

\* lines 1183-1235: the finite filter, the four region masks, their
\* intersection, and the near-vertical branch
FitBegin ==
    /\ fit.pc = "start"
    /\ LET in  == fit.in
           pts == FinitePoints(in.points)
           sx  == SelectXRange(pts, in)
           sy  == SelectYRange(pts, in)
           su  == SelectUpper(pts, in)
           sl  == SelectLower(pts, in)
           f0  == [fit EXCEPT !.pts = pts, !.selectXRange = sx, !.selectYRange = sy,
                              !.selectUpper = su, !.selectLower = sl,
                              !.select = sx \cap sy \cap su \cap sl,
                              !.keep = DOMAIN pts]
       IN fit' =
            IF ~in.closeToVertical THEN [f0 EXCEPT !.pc = "ols", !.ii = 0]
            ELSE IF in.xFitRange = NoPair
                 THEN [f0 EXCEPT !.pc = "error", !.error = "TypeError",
                                 !.keep = f0.keep \cap f0.select]
                 ELSE [f0 EXCEPT !.pc = "density", !.keep = f0.keep \cap f0.select,
                                 !.poly = VerticalGuess(in.xFitRange)]
    /\ UNCHANGED <<quantity, selection, forcedMean, stats, dist, batch, repeat, sysErr,
                   plotAll, targetList, srcMatches>>

\* the region masks after "if ii == 0": both ranges padded, then
\* "for sel in [...]: select &= sel"
RelaxedSelect(f) ==
    f.select \cap SelectXRangePad(f.pts, f.in) \cap SelectYRangePad(f.pts, f.in)
             \cap f.selectUpper \cap f.selectLower

\* lines 1237-1249: one pass of "for ii in range(iterations)"
OlsIteration ==
    /\ fit.pc = "ols"
    /\ fit.ii < fit.in.iterations
    /\ LET keep0 == fit.keep \cap fit.select
       IN fit' =
            IF keep0 = {}
            THEN [fit EXCEPT !.pc = "error", !.error = "TypeError", !.keep = keep0]
            ELSE LET poly == polyfit(fit.pts, keep0)
                     kept == OlsClip(poly, fit.pts, keep0)
                     f1   == [fit EXCEPT !.poly = poly, !.keep = kept,
                                         !.olsFits = Append(@, keep0),
                                         !.ii = @ + 1]
                 IN IF fit.ii = 0
                    THEN [f1 EXCEPT !.selectXRange = SelectXRangePad(fit.pts, fit.in),
                                    !.selectYRange = SelectYRangePad(fit.pts, fit.in),
                                    !.select = RelaxedSelect(fit)]
                    ELSE f1
    /\ UNCHANGED <<quantity, selection, forcedMean, stats, dist, batch, repeat, sysErr,
                   plotAll, targetList, srcMatches>>

\* lines 1251-1258: the final count check and the final least-squares fit
OlsFinish ==
    /\ fit.pc = "ols"
    /\ fit.ii = fit.in.iterations
    /\ LET keep0 == fit.keep \cap fit.select
       IN fit' =
            IF NotEnough(Cardinality(keep0))
            THEN [fit EXCEPT !.pc = "error", !.error = "RuntimeError", !.keep = keep0,
                             !.nKeep = Cardinality(keep0)]
            ELSE IF keep0 = {}
            THEN [fit EXCEPT !.pc = "error", !.error = "TypeError", !.keep = keep0,
                             !.nKeep = Cardinality(keep0)]
            ELSE [fit EXCEPT !.pc = "density", !.keep = keep0, !.nKeep = Cardinality(keep0),
                             !.poly = polyfit(fit.pts, keep0)]
    /\ UNCHANGED <<quantity, selection, forcedMean, stats, dist, batch, repeat, sysErr,
                   plotAll, targetList, srcMatches>>

\* the points of K lie on one straight line (or are fewer than three)
Collinear(pts, K) ==
    \A i, j, k \in K :
        (pts[j].x - pts[i].x) * (pts[k].y - pts[i].y)
            = (pts[k].x - pts[i].x) * (pts[j].y - pts[i].y)

\* scipyStats.gaussian_kde(xy)(xy) for the points K: "" when it returns, or
\* the exception.  An empty data set is refused with ValueError; the
\* covariance of one point is NaN, which linalg.inv refuses with ValueError;
\* the covariance of collinear points is singular, and linalg.inv raises
\* LinAlgError unless rounding has left it invertible.
KdeOutcomesAlwaysReturns(pts, K) == {""}

KdeOutcomes(pts, K) ==
    IF Cardinality(K) <= 1 THEN {"ValueError"}
    ELSE IF Collinear(pts, K) THEN {"LinAlgError", ""}
    ELSE {""}

\* lines 1260-1268: the point density of the kept points, then of the others
DensityEstimate ==
    /\ fit.pc = "density"
    /\ \E zKeep \in KdeOutcomes(fit.pts, fit.keep) :
          IF zKeep # ""
          THEN fit' = [fit EXCEPT !.pc = "error", !.error = zKeep]
          ELSE \E zOther \in KdeOutcomes(fit.pts, (DOMAIN fit.pts) \ fit.keep) :
                 IF zOther # ""
                 THEN fit' = [fit EXCEPT !.pc = "error", !.error = zOther]
                 ELSE fit' = [fit EXCEPT !.pc = "odr"]
    /\ UNCHANGED <<quantity, selection, forcedMean, stats, dist, batch, repeat, sysErr,
                   plotAll, targetList, srcMatches>>

\* lines 1270-1272: the first orthogonal regression, on the keep set, seeded
\* with the reversed coefficients of the initial guess
OdrFirst ==
    /\ fit.pc = "odr"
    /\ LET guess == Reversed(fit.poly)
       IN \E coeffs \in orthogonalRegression(fit.pts, fit.keep, guess) :
            fit' = [fit EXCEPT !.pc = "odrLoop", !.ii = 0,
                               !.initialGuess = guess, !.keepOdr = fit.keep,
                               !.orthRegCoeffs = coeffs,
                               !.odrCalls = Append(@, [keep |-> fit.keep, guess |-> guess,
                                                        coeffs |-> coeffs])]
    /\ UNCHANGED <<quantity, selection, forcedMean, stats, dist, batch, repeat, sysErr,
                   plotAll, targetList, srcMatches>>

\* initialGuess = list(reversed(orthRegCoeffs)): the seed of a clip+refit round
NextGuessFirstSeed(f) == f.initialGuess

NextGuess(f) == Reversed(f.orthRegCoeffs)

\* lines 1273-1290: one pass of "for ii in range(iterations - 1)"
OdrRound ==
    /\ fit.pc = "odrLoop"
    /\ fit.ii < fit.in.iterations - 1
    /\ LET guess == NextGuess(fit)
           clipped == ClipKeep(fit.orthRegCoeffs, fit.pts, fit.keepOdr)
           sxp  == SelectXRangePad(fit.pts, fit.in)
           syp  == SelectYRangePad(fit.pts, fit.in)
           kept == IF fit.ii = 0
                   THEN clipped \cap sxp \cap syp \cap fit.selectUpper \cap fit.selectLower
                   ELSE clipped
           f1   == [fit EXCEPT !.initialGuess = guess, !.keepOdr = kept,
                               !.selectXRange = IF fit.ii = 0 THEN sxp ELSE @,
                               !.selectYRange = IF fit.ii = 0 THEN syp ELSE @]
       IN IF NotEnough(Cardinality(kept))
          THEN fit' = [f1 EXCEPT !.pc = "error", !.error = "RuntimeError"]
          ELSE \E coeffs \in orthogonalRegression(fit.pts, kept, guess) :
                 fit' = [f1 EXCEPT !.orthRegCoeffs = coeffs, !.ii = @ + 1,
                                   !.odrCalls = Append(@, [keep |-> kept, guess |-> guess,
                                                            coeffs |-> coeffs])]
    /\ UNCHANGED <<quantity, selection, forcedMean, stats, dist, batch, repeat, sysErr,
                   plotAll, targetList, srcMatches>>

\* line 1594: return orthRegCoeffs
FitReturn ==
    /\ fit.pc = "odrLoop"
    /\ fit.ii = fit.in.iterations - 1
    /\ fit' = [fit EXCEPT !.pc = "done", !.ret = fit.orthRegCoeffs]
    /\ UNCHANGED <<quantity, selection, forcedMean, stats, dist, batch, repeat, sysErr,
                   plotAll, targetList, srcMatches>>

(***************************************************************************)
(* The curve-distance evaluation: ColorColorDistance.__call__ and the      *)
(* locus-quality loop of colorColorPolyFitPlot.  The polynomial is of      *)
(* degree at most 1, so the stationarity polynomial is linear and its root *)
(* rational.  A distance is [nan, sign, d2, scale]: the number             *)
(* sign * sqrt(d2) * scale, or NaN.                                        *)
(***************************************************************************)
Add(a, b) ==
    IF a.nan \/ b.nan THEN NaN
    ELSE Rat(a.num * b.den + b.num * a.den, a.den * b.den)

Mul(a, b) == IF a.nan \/ b.nan THEN NaN ELSE Rat(a.num * b.num, a.den * b.den)

\* poly(t) for a rational t
PolyAt(p, t) == Rat(p.c[1] * t.num + p.c[2] * t.den, p.den * t.den)

\* np.poly1d((1, -x)) + (poly - y)*polyDeriv, highest degree first, times
\* poly.den squared: (t - x) + (P(t) - y) P'(t) for P(t) = (c1 t + c2)/den.
\* For a constant P the derivative is 0 and the polynomial is t - x.
StationarityMinus(p, x, y) ==
    <<p.den * p.den - p.c[1] * p.c[1],
      - x * p.den * p.den - p.c[1] * (p.c[2] - y * p.den)>>

Stationarity(p, x, y) ==
    <<p.den * p.den + p.c[1] * p.c[1],
      - x * p.den * p.den + p.c[1] * (p.c[2] - y * p.den)>>

\* [rr for rr in np.roots(sp) if np.real(rr) == rr]: np.roots strips leading
\* zero coefficients; a linear polynomial has one root, which is real, a
\* constant has none
RealRootsNegated(sp) ==
    IF sp[1] = 0 THEN {}
    ELSE {Rat(IF sp[1] > 0 THEN sp[2] ELSE -sp[2], Abs(sp[1]))}

RealRoots(sp) ==
    IF sp[1] = 0 THEN {}
    ELSE {Rat(IF sp[1] > 0 THEN -sp[2] ELSE sp[2], Abs(sp[1]))}

\* distanceSquaredToPoly(x, y, t, poly): the squared distance from (x, y) to
\* the point (t, poly(t)) of the curve
distanceSquaredToPoly(x, y, t, p) ==
    LET dx == Sub(Fin(x), t)
        dy == Sub(Fin(y), PolyAt(p, t))
    IN Add(Mul(dx, dx), Mul(dy, dy))

\* min(...) over a non-empty set of rationals
MinOf(S) == CHOOSE a \in S : \A b \in S : ~Gt(a, b)

\* np.where(yy >= poly(xx), 1.0, -1.0); the comparison is false for NaN
SignOfFlipped(p, x, y) ==
    IF ~x.nan /\ ~y.nan /\ y.num * p.den > PolyValNum(p, x.num) THEN -1 ELSE 1

SignOf(p, x, y) ==
    IF ~x.nan /\ ~y.nan /\ y.num * p.den >= PolyValNum(p, x.num) THEN 1 ELSE -1

DistNaN(p, x, y, scale) == [nan |-> TRUE, sign |-> SignOf(p, x, y), d2 |-> NaN, scale |-> scale]

\* the test of ColorColorDistance.__call__ that sets distance2[i] = np.nan
OutOfBoundsNoUpper(x, y, in) ==
    \/ x.nan \/ y.nan
    \/ (in.xMin # None /\ Gt(in.xMin, x))
    \/ (in.xMax # None /\ Gt(x, in.xMax))
    \/ (in.fitLineLower # NoPair
          /\ y.num < in.fitLineLower[1] + in.fitLineLower[2] * x.num)

OutOfBounds(x, y, in) ==
    \/ x.nan \/ y.nan
    \/ (in.xMin # None /\ Gt(in.xMin, x))
    \/ (in.xMax # None /\ Gt(x, in.xMax))
    \/ (in.fitLineUpper # NoPair
          /\ y.num > in.fitLineUpper[1] + in.fitLineUpper[2] * x.num)
    \/ (in.fitLineLower # NoPair
          /\ y.num < in.fitLineLower[1] + in.fitLineLower[2] * x.num)

\* the squared distances at the real roots of the stationarity polynomial
RootDistances(p, x, y) ==
    {distanceSquaredToPoly(x, y, t, p) : t \in RealRoots(Stationarity(p, x, y))}

\* one entry of the returned array, for a point that is evaluated
DistanceOf(p, x, y, scale) ==
    [nan |-> FALSE, sign |-> SignOf(p, Fin(x), Fin(y)),
     d2 |-> MinOf(RootDistances(p, x, y)), scale |-> scale]

\* xx = catalog[band1] - catalog[band2]; yy = catalog[band2] - catalog[band3]
ColourX(row) == Sub(row[1], row[2])

ColourY(row) == Sub(row[2], row[3])

\* ColorColorDistance.__call__(catalog): min() of an empty sequence raises
\* ValueError, which nothing catches; otherwise the array is returned
ColorColorDistance(in) ==
    LET xx == [i \in DOMAIN in.catalog |-> ColourX(in.catalog[i])]
        yy == [i \in DOMAIN in.catalog |-> ColourY(in.catalog[i])]
        evaluated == {i \in DOMAIN xx : ~OutOfBounds(xx[i], yy[i], in)}
    IN IF \E i \in evaluated : RootDistances(in.poly, xx[i].num, yy[i].num) = {}
       THEN [pc |-> "error", error |-> "ValueError", by |-> "ColorColorDistance",
             xx |-> xx, yy |-> yy, kept |-> evaluated, result |-> <<>>]
       ELSE [pc |-> "done", error |-> "", by |-> "ColorColorDistance",
             xx |-> xx, yy |-> yy, kept |-> evaluated,
             result |-> [i \in DOMAIN xx |->
                            IF i \in evaluated
                            THEN DistanceOf(in.poly, xx[i].num, yy[i].num, in.unitScale)
                            ELSE DistNaN(in.poly, xx[i], yy[i], in.unitScale)]]

\* lines 1504-1514 of colorColorPolyFitPlot: the distances of the points
\* xx[kept], yy[kept] of the finite arrays to polyFit, one entry per kept point
LocusQuality(in, pts, kept) ==
    LET xx == [i \in DOMAIN pts |-> Fin(pts[i].x)]
        yy == [i \in DOMAIN pts |-> Fin(pts[i].y)]
    IN IF \E i \in kept : RootDistances(in.poly, pts[i].x, pts[i].y) = {}
       THEN [pc |-> "error", error |-> "ValueError", by |-> "LocusQuality",
             xx |-> xx, yy |-> yy, kept |-> kept, result |-> <<>>]
       ELSE [pc |-> "done", error |-> "", by |-> "LocusQuality",
             xx |-> xx, yy |-> yy, kept |-> kept,
             result |-> [i \in kept |->
                            DistanceOf(in.poly, pts[i].x, pts[i].y, in.unitScale)]]

(***************************************************************************)
(* Analysis.calculateSysError(quantity, error, selection, forcedMean).     *)
(* The objective is function(sysErr2) = stats.stdev - 1.0, stats being     *)
(* calculateStats of quantity/sqrt(error**2 + sysErr2).  The model keeps   *)
(* the square of stdev, so the objective is 0 exactly when that is 1.      *)
(* Square roots are taken of perfect squares only: the arguments at which  *)
(* the objective is evaluated are those that make error**2 + sysErr2 a     *)
(* perfect square, or negative, for every entry.  A number that is the     *)
(* square root of x is kept as [nan, square |-> x].                        *)
(***************************************************************************)
IsSquare(n) == \E r \in 0..n : r * r = n

ISqrt(n) == CHOOSE r \in 0..n : r * r = n

\* np.sqrt of an integer: NaN for a negative or NaN argument
SqrtV(a) == IF a.nan \/ a.num < 0 THEN NaN ELSE Fin(ISqrt(a.num))

\* a / b for b > 0
Div(a, b) == IF a.nan \/ b.nan THEN NaN ELSE Rat(a.num * b.den, a.den * b.num)

\* sigNoise = quantity/np.sqrt(error**2 + sysErr2)
SigNoise(q, err, sysErr2) ==
    [i \in DOMAIN q |-> Div(q[i], SqrtV(Add(Fin(err[i] * err[i]), sysErr2)))]

\* the square of stats.stdev inside function(sysErr2)
ObjectiveStdev2(q, err, selMask, fm, sysErr2) ==
    calculateStats(SigNoise(q, err, sysErr2), selMask, fm).stdev

\* function(sysErr2) == 0
IsRoot(q, err, selMask, fm, sysErr2) ==
    Eq(ObjectiveStdev2(q, err, selMask, fm, sysErr2), Fin(1))

\* the arguments the solver may try or return
SysErr2Pool == {Fin(-200), Fin(-7), Fin(0), Fin(9)}

\* every square root taken at sysErr2 is exact and no divisor is 0
Exact(err, sysErr2) ==
    \A i \in DOMAIN err :
        LET r == err[i] * err[i] + sysErr2.num
        IN r < 0 \/ (r > 0 /\ IsSquare(r))

\* result = scipy.optimize.root(function, 0.0, tol=tol): either the solver
\* reports success at a root of the objective, or it reports failure at
\* whatever argument it stopped at
SolverOutcomes(q, err, selMask, fm) ==
    LET tried == {x \in SysErr2Pool : Exact(err, x)}
    IN {[success |-> FALSE, x |-> x] : x \in tried \cup {NaN}}
         \cup {[success |-> TRUE, x |-> x] :
                  x \in {y \in tried : IsRoot(q, err, selMask, fm, y)}}

\* np.sqrt(result.x[0]): NaN for a negative or NaN argument
RootOf(x) ==
    IF x.nan \/ x.num < 0 THEN [nan |-> TRUE, square |-> NaN]
    ELSE [nan |-> FALSE, square |-> x]

\* "if not result.success: ... answer = np.nan / else: answer = np.sqrt(result.x[0])"
AnswerIgnoringFailure(result) == RootOf(result.x)

AnswerOf(result) ==
    IF ~result.success THEN [nan |-> TRUE, square |-> NaN] ELSE RootOf(result.x)

SysCall(err) ==
    [pc |-> "call", error |-> err, result |-> None, warned |-> FALSE,
     answer |-> None, printed |-> None, ret |-> None]

\* result = scipy.optimize.root(function, 0.0, tol=tol)
SolveRoot ==
    /\ sysErr.pc = "call"
    /\ \E result \in SolverOutcomes(quantity, sysErr.error, selection, forcedMean) :
          sysErr' = [sysErr EXCEPT !.pc = "solved", !.result = result]
    /\ UNCHANGED <<quantity, selection, forcedMean, stats, repeat, fit, dist, batch,
                   plotAll, targetList, srcMatches>>

\* the branch on result.success: the warning is printed and answer is NaN,
\* or answer is the square root of the solution
SysAnswer ==
    /\ sysErr.pc = "solved"
    /\ sysErr' = [sysErr EXCEPT !.pc = "print",
                                !.warned = ~sysErr.result.success,
                                !.answer = AnswerOf(sysErr.result)]
    /\ UNCHANGED <<quantity, selection, forcedMean, stats, repeat, fit, dist, batch,
                   plotAll, targetList, srcMatches>>

\* print "calculateSysError: ", (function(answer**2), ...); return answer.
\* At a NaN answer the three arguments are NaN and the three evaluations are
\* the same; at a finite answer the evaluation at answer**2 is kept and the
\* two at (answer +- 0.001)**2, which are only printed, are not computed.
SysPrintReturn ==
    /\ sysErr.pc = "print"
    /\ LET arg == IF sysErr.answer.nan THEN NaN ELSE sysErr.answer.square
       IN sysErr' = [sysErr EXCEPT
                        !.pc = "done",
                        !.printed = ObjectiveStdev2(quantity, sysErr.error, selection,
                                                    forcedMean, arg),
                        !.ret = sysErr.answer]
    /\ UNCHANGED <<quantity, selection, forcedMean, stats, repeat, fit, dist, batch,
                   plotAll, targetList, srcMatches>>

(***************************************************************************)
(* Specification of one calculateStats call                                *)
(***************************************************************************)
\* longest quantity array enumerated
MaxLen == 5

\* the values an entry of the quantity array takes, in enumeration order
SampleValues == <<Fin(0), Fin(1), Fin(5), NaN>>

\* arrays are enumerated up to permutation: calculateStats does not depend on
\* the order of the entries (the percentile sorts, the masks are per entry)
SampleArrays ==
    UNION {{[i \in 1..n |-> SampleValues[c[i]]] :
              c \in {f \in [1..n -> DOMAIN SampleValues] :
                        \A i \in 1..n : i < n => f[i] <= f[i + 1]}} : n \in 0..MaxLen}

ForcedMeans == {None, Fin(0), Fin(1)}

NoFit == [pc |-> "idle"]

NoDist == [pc |-> "idle"]

NoBatch == [pc |-> "idle"]

NoSys == [pc |-> "idle"]

NoPlotAll == [pc |-> "idle"]

NoTargetList == [pc |-> "idle"]

NoSrcMatches == [pc |-> "idle"]

InitStats ==
    /\ quantity \in SampleArrays
    /\ selection \in [DOMAIN quantity -> BOOLEAN]
    /\ forcedMean \in ForcedMeans
    /\ stats = None
    /\ fit = NoFit
    /\ dist = NoDist
    /\ batch = NoBatch
    /\ repeat = None
    /\ sysErr = NoSys
    /\ plotAll = NoPlotAll
    /\ targetList = NoTargetList
    /\ srcMatches = NoSrcMatches

\* stats[name] = self.calculateStats(data.quantity, good, forcedMean=forcedMean)
CalculateStats ==
    /\ stats = None
    /\ stats' = calculateStats(quantity, selection, forcedMean)
    /\ quantity' = QuantityAfterCall(quantity, selection)
    /\ UNCHANGED <<selection, forcedMean, fit, dist, batch, repeat, sysErr,
                   plotAll, targetList, srcMatches>>

\* a second call with the same arguments
CalculateStatsAgain ==
    /\ stats # None
    /\ repeat = None
    /\ repeat' = calculateStats(quantity, selection, forcedMean)
    /\ quantity' = QuantityAfterCall(quantity, selection)
    /\ UNCHANGED <<selection, forcedMean, stats, fit, dist, batch, sysErr,
                   plotAll, targetList, srcMatches>>

NextStats ==
    \/ CalculateStats
    \/ CalculateStatsAgain

SpecStats == InitStats /\ [][NextStats]_vars

\* the quartiles of the selected values of the current call
SelQ(k) == Quartile(quantity, TrueSet(selection), k)

Returned == stats # None

(***************************************************************************)
(* C1: calculateStats with a selection mask that selects no entry returns  *)
(* total = 0, num = 0 and NaN for mean, stdev, median, clip and forcedMean.*)
(***************************************************************************)
C1_EmptySelection ==
    (Returned /\ TrueSet(selection) = {}) =>
        /\ stats.total = 0
        /\ stats.num = 0
        /\ IsNaN(stats.mean) /\ IsNaN(stats.stdev) /\ IsNaN(stats.median)
        /\ IsNaN(stats.clip) /\ IsNaN(stats.forcedMean)

\* a call on a non-empty array, with a forced mean, whose mask selects nothing
C1_Witness ==
    /\ Returned /\ TrueSet(selection) = {}
    /\ Len(quantity) >= 2 /\ forcedMean = Fin(1)
    /\ stats.total = 0

(***************************************************************************)
(* C10 as claimed: when the selected values have zero interquartile spread *)
(* (Q3 = Q1), the used set equals the selected set and num = total.        *)
(***************************************************************************)
C10_FallsBackToSelected ==
    (Returned /\ Eq(SelQ(1), SelQ(3))) =>
        /\ stats.dataUsed = TrueSet(selection)
        /\ stats.num = stats.total

(***************************************************************************)
(* C10 as amended: when Q3 = Q1 the clip is 0 and the used set is exactly  *)
(* the selected entries equal to the median; it is not empty, and it is    *)
(* the whole selection only when every selected value equals the median.   *)
(***************************************************************************)
C10_ZeroSpreadKeepsMedian ==
    (Returned /\ Eq(SelQ(1), SelQ(3))) =>
        /\ Eq(stats.clip, Fin(0))
        /\ stats.dataUsed = {i \in TrueSet(selection) : Eq(quantity[i], stats.median)}
        /\ stats.num = Cardinality(stats.dataUsed)
        /\ stats.num >= 1 /\ stats.num <= stats.total

\* zero spread with a selected value off the median: used is a proper subset
C10_Witness ==
    /\ Returned /\ Eq(SelQ(1), SelQ(3))
    /\ stats.num >= 1 /\ stats.num < stats.total

\* m is the arithmetic mean of the used values (NaN when one of them is NaN)
IsMeanOfUsed(m) ==
    LET U == stats.dataUsed
    IN IF U = {} \/ \E i \in U : quantity[i].nan THEN m.nan
       ELSE /\ ~m.nan
            /\ m.num * Cardinality(U) = m.den * SumInts([i \in U |-> quantity[i].num], U)

\* a and b are the same number, or both NaN
Same(a, b) == (a.nan /\ b.nan) \/ Eq(a, b)

(***************************************************************************)
(* C11 as claimed: when forcedMean is supplied the mean reported in the    *)
(* result is forcedMean; otherwise it is the arithmetic mean of the used   *)
(* values.                                                                 *)
(***************************************************************************)
C11_ForcedMeanReported ==
    (Returned /\ stats.total > 0) =>
        IF forcedMean # None THEN Same(stats.mean, forcedMean)
        ELSE IsMeanOfUsed(stats.mean)

(***************************************************************************)
(* C11 as amended: the mean field is the arithmetic mean of the used       *)
(* values whether or not forcedMean is supplied; a supplied forcedMean is  *)
(* reported in the forcedMean field and is the centre about which stdev    *)
(* is computed.                                                            *)
(***************************************************************************)
C11_MeanIsActualMean ==
    (Returned /\ stats.total > 0) =>
        /\ IsMeanOfUsed(stats.mean)
        /\ stats.forcedMean = forcedMean
        /\ Same(stats.stdev,
                MeanSquareAbout(quantity, stats.dataUsed,
                                IF forcedMean = None THEN stats.mean ELSE forcedMean))

\* a forced mean of 1 supplied for used values whose mean is another number
C11_Witness ==
    /\ Returned /\ stats.total > 0 /\ forcedMean = Fin(1)
    /\ ~stats.mean.nan /\ ~Eq(stats.mean, forcedMean)
    /\ stats.forcedMean = Fin(1)

(***************************************************************************)
(* C12 as claimed: an entry whose value is NaN is never among the used     *)
(* points, even when the selection mask selects it.                        *)
(***************************************************************************)
C12_NaNNeverUsed ==
    Returned => \A i \in DOMAIN quantity : quantity[i].nan => i \notin stats.dataUsed

(***************************************************************************)
(* C13 as claimed: every result has num <= total, a used mask inside the   *)
(* selection mask, and clip >= 0 whenever total > 0.                       *)
(***************************************************************************)
C13_StatsInvariants ==
    Returned =>
        /\ stats.num <= stats.total
        /\ stats.dataUsed \subseteq TrueSet(selection)
        /\ stats.total > 0 => (~stats.clip.nan /\ stats.clip.num >= 0)

\* the selected values are all finite
SelectedFinite == \A i \in TrueSet(selection) : ~quantity[i].nan

\* v is a 25*k-th percentile of the selected finite values by rank: enough
\* selected values lie at or below it and enough at or above it
IsPercentile(v, k) ==
    LET sel == TrueSet(selection)
        n   == Cardinality(sel)
        atOrBelow == Cardinality({i \in sel : ~Gt(quantity[i], v)})
        atOrAbove == Cardinality({i \in sel : ~Gt(v, quantity[i])})
    IN /\ ~v.nan
       /\ 4 * atOrBelow >= (n - 1) * k + 1
       /\ 4 * atOrAbove >= (n - 1) * (4 - k) + 1

\* a <= b; false when either is NaN
Le(a, b) == Gt(b, a) \/ Eq(a, b)

IsMeanSquareAbout(v, m) ==
    LET U == stats.dataUsed
    IN IF U = {} \/ m.nan \/ \E i \in U : quantity[i].nan THEN v.nan
       ELSE /\ ~v.nan
            /\ v.num * Cardinality(U) * m.den * m.den
                 = v.den * SumInts([i \in U |-> (quantity[i].num * m.den - m.num)
                                                   * (quantity[i].num * m.den - m.num)], U)

\* the result of the same call made without forcedMean
Unforced == calculateStats(quantity, selection, None)

(***************************************************************************)
(* C22: the stdev of a result with total > 0 is the RMS deviation of the   *)
(* used values about forcedMean when it is supplied and about their        *)
(* arithmetic mean otherwise; the used set, num, total, median, clip and   *)
(* mean are those of the same call made without forcedMean.                *)
(***************************************************************************)
C22_StdevAboutActiveMean ==
    (Returned /\ stats.total > 0) =>
        /\ IsMeanSquareAbout(stats.stdev,
                             IF forcedMean = None THEN stats.mean ELSE forcedMean)
        /\ stats.dataUsed = Unforced.dataUsed
        /\ stats.num = Unforced.num /\ stats.total = Unforced.total
        /\ Same(stats.median, Unforced.median) /\ Same(stats.clip, Unforced.clip)
        /\ Same(stats.mean, Unforced.mean)

\* a forced mean that is not the mean of the used values: the stdev differs
\* from that of the call without it, with some selected value clipped
C22_Witness ==
    /\ Returned /\ forcedMean = Fin(1) /\ stats.num < stats.total
    /\ ~stats.stdev.nan /\ ~Eq(stats.stdev, Unforced.stdev)
    /\ ~Eq(stats.mean, forcedMean)

(***************************************************************************)
(* C27: for a non-empty selection of finite values, with the default clip  *)
(* factor, the result has num >= 1: the used set is not empty, and the     *)
(* mean and the stdev are numbers.                                         *)
(***************************************************************************)
C27_UsedNeverEmpty ==
    (Returned /\ stats.total > 0 /\ SelectedFinite) =>
        /\ stats.num >= 1 /\ stats.dataUsed # {}
        /\ ~stats.mean.nan /\ ~stats.stdev.nan
        /\ \E i \in stats.dataUsed :
              \A j \in TrueSet(selection) :
                  ~Gt(AbsV(Sub(quantity[i], stats.median)),
                      AbsV(Sub(quantity[j], stats.median)))

\* the median falls between the selected values: no selected value equals
\* it, and a value is used all the same
C27_Witness ==
    /\ Returned /\ SelectedFinite /\ stats.total >= 4
    /\ \A i \in TrueSet(selection) : ~Eq(quantity[i], stats.median)
    /\ stats.num >= 1 /\ Cardinality(TrueSet(selection)) < Len(quantity)

MaxSys == 3

\* the kinds of entry: <<quantity, error, selected>>
SysEntries ==
    <<<<-3, 4, TRUE>>, <<3, 4, TRUE>>, <<-5, 4, TRUE>>, <<5, 4, TRUE>>,
      <<3, 12, TRUE>>, <<-3, 4, FALSE>>, <<5, 12, FALSE>>>>

\* arrays are enumerated up to permutation
SysArrays ==
    UNION {{[i \in 1..n |-> SysEntries[c[i]]] :
              c \in {f \in [1..n -> DOMAIN SysEntries] :
                        \A i \in 1..n : i < n => f[i] <= f[i + 1]}} : n \in 0..MaxSys}

InitSys ==
    /\ \E a \in SysArrays :
          /\ quantity = [i \in DOMAIN a |-> Fin(a[i][1])]
          /\ selection = [i \in DOMAIN a |-> a[i][3]]
          /\ sysErr = SysCall([i \in DOMAIN a |-> a[i][2]])
    /\ forcedMean \in {None, Fin(0)}
    /\ stats = None
    /\ repeat = None
    /\ fit = NoFit
    /\ dist = NoDist
    /\ batch = NoBatch
    /\ plotAll = NoPlotAll
    /\ targetList = NoTargetList
    /\ srcMatches = NoSrcMatches

NextSys ==
    \/ SolveRoot
    \/ SysAnswer
    \/ SysPrintReturn

SpecSys == InitSys /\ [][NextSys]_vars

Solved == sysErr.pc \in {"solved", "print", "done"}

Answered == sysErr.pc \in {"print", "done"}

\* the solver has reported failure
Failed == IF Solved THEN ~sysErr.result.success ELSE FALSE

(***************************************************************************)
(* C14: when the root finder reports failure, the warning is printed, the  *)
(* answer is NaN, and the call is never stuck before its return: it goes  *)
(* on through the diagnostic evaluations of the objective at NaN, which    *)
(* give NaN, and returns NaN.                                              *)
(***************************************************************************)
C14_FailureGivesNaN ==
    /\ (Answered /\ Failed) => (sysErr.warned /\ sysErr.answer.nan)
    /\ (sysErr.pc = "done" /\ Failed) => (sysErr.ret.nan /\ sysErr.printed.nan)
    /\ (Failed /\ sysErr.pc # "done") => ENABLED NextSys

\* a failed solve that stopped at a non-negative argument has returned NaN
C14_Witness ==
    /\ sysErr.pc = "done" /\ ~sysErr.result.success
    /\ ~sysErr.result.x.nan /\ sysErr.result.x.num >= 0
    /\ sysErr.warned /\ sysErr.ret.nan
    /\ TrueSet(selection) # {}

(***************************************************************************)
(* C15 as claimed: whenever the root finder reports success, the accepted  *)
(* root s2 is >= 0 and the returned value sqrt(s2) is a finite             *)
(* non-negative number.                                                    *)
(***************************************************************************)
C15_RootNonNegative ==
    (Solved /\ sysErr.result.success) =>
        /\ sysErr.result.x.num >= 0
        /\ Answered => ~sysErr.answer.nan

(***************************************************************************)
(* Specification of one colorColorPolyFitPlot call                         *)
(***************************************************************************)
\* most points in the arrays xx, yy
MaxPts == 5

\* most iterations asked for
MaxIterations == 3

Pt(x, y) == [x |-> x, y |-> y]

\* the colour-colour points the arrays are drawn from; the last is not finite
PointPool ==
    <<Pt(Fin(1), Fin(1)), Pt(Fin(3), Fin(2)), Pt(Fin(4), Fin(3)), Pt(Fin(5), Fin(2)),
      Pt(Fin(3), Fin(0)), Pt(Fin(4), Fin(2)), Pt(NaN, Fin(1))>>

\* arrays are enumerated up to permutation: the fit does not depend on the
\* order of the points
PointArrays ==
    UNION {{[i \in 1..n |-> PointPool[c[i]]] :
              c \in {f \in [1..n -> DOMAIN PointPool] :
                        \A i \in 1..n : i < n => f[i] <= f[i + 1]}} : n \in 0..MaxPts}

Region(xr, yr, up, lo) ==
    [xFitRange |-> xr, yFitRange |-> yr, fitLineUpper |-> up, fitLineLower |-> lo]

\* the fit regions: none, an x range, x and y ranges, two bounding lines, all
Regions ==
    {Region(NoPair, NoPair, NoPair, NoPair),
     Region(<<2, 5>>, NoPair, NoPair, NoPair),
     Region(<<2, 5>>, <<0, 4>>, NoPair, NoPair),
     Region(NoPair, NoPair, <<7, -1>>, <<2, -1>>),
     Region(<<2, 5>>, <<0, 4>>, <<7, -1>>, <<2, -1>>)}

FitInputs ==
    {[points |-> a, xFitRange |-> r.xFitRange, yFitRange |-> r.yFitRange,
      fitLineUpper |-> r.fitLineUpper, fitLineLower |-> r.fitLineLower,
      iterations |-> n, closeToVertical |-> v] :
        a \in PointArrays, r \in Regions, n \in 1..MaxIterations, v \in BOOLEAN}

InitFit ==
    /\ fit \in {FitCall(in) : in \in FitInputs}
    /\ quantity = <<>>
    /\ selection = <<>>
    /\ forcedMean = None
    /\ stats = None
    /\ dist = NoDist
    /\ batch = NoBatch
    /\ repeat = None
    /\ sysErr = NoSys
    /\ plotAll = NoPlotAll
    /\ targetList = NoTargetList
    /\ srcMatches = NoSrcMatches

NextFit ==
    \/ FitBegin
    \/ OlsIteration
    \/ OlsFinish
    \/ DensityEstimate
    \/ OdrFirst
    \/ OdrRound
    \/ FitReturn

SpecFit == InitFit /\ [][NextFit]_vars

\* the region masks of the current call, computed from its arguments
RegionSelect == SelectXRange(fit.pts, fit.in) \cap SelectYRange(fit.pts, fit.in)
                    \cap fit.selectUpper \cap fit.selectLower

PaddedSelect == SelectXRangePad(fit.pts, fit.in) \cap SelectYRangePad(fit.pts, fit.in)
                    \cap fit.selectUpper \cap fit.selectLower

\* the points within the residual clip of the fit of OLS iteration j
ClipOfIteration(j) ==
    ClipKeep(polyfit(fit.pts, fit.olsFits[j]), fit.pts, fit.olsFits[j])

\* the keep sets of the OLS stage in order: the set fitted in each iteration
\* and, once the loop has ended without error, the final keep mask
OlsKeeps ==
    IF fit.nKeep # NotCounted THEN Append(fit.olsFits, fit.keep) ELSE fit.olsFits

(***************************************************************************)
(* C2 as claimed: across successive OLS iterations the keep set never      *)
(* grows: a point that is not in the keep set of iteration i is in the     *)
(* keep set of no later iteration, nor in the final keep mask.             *)
(***************************************************************************)
C2_KeepNeverGrows ==
    \A i, j \in DOMAIN OlsKeeps : i < j => OlsKeeps[j] \subseteq OlsKeeps[i]

(***************************************************************************)
(* C2 as amended: each OLS iteration assigns the keep set anew: the keep   *)
(* set of iteration j+1 (and the final keep mask after the last one) is    *)
(* exactly the set of points within the residual clip of fit j that lie    *)
(* in the fit region.  It never leaves the region, but a point rejected    *)
(* by the clip of one iteration may be kept again by a later one.          *)
(***************************************************************************)
C2_KeepIsClipOfLastFit ==
    \A j \in DOMAIN OlsKeeps :
        /\ OlsKeeps[j] \subseteq RegionSelect
        /\ j > 1 => OlsKeeps[j] = ClipOfIteration(j - 1) \cap RegionSelect

\* a point of the region rejected by the clip of one iteration is kept again
C2_Witness ==
    \E i, j \in DOMAIN OlsKeeps :
        /\ 1 < i /\ i < j
        /\ \E p \in RegionSelect : p \notin OlsKeeps[i] /\ p \in OlsKeeps[j]

(***************************************************************************)
(* C3 as claimed: from the second OLS iteration on, a finite point outside *)
(* the original x or y range but inside the ranges widened by 7% of their  *)
(* span, inside the bounding lines and within the residual clip of the     *)
(* preceding fit, is a member of the keep set.                             *)
(***************************************************************************)
C3_WidenedRangeAdmits ==
    \A j \in DOMAIN fit.olsFits :
        j > 1 =>
            \A p \in (PaddedSelect \ RegionSelect) \cap ClipOfIteration(j - 1) :
                p \in fit.olsFits[j]

C5_InsufficientDataRaises ==
    /\ (fit.nKeep # NotCounted /\ fit.nKeep < Order) =>
          /\ fit.pc = "error" /\ fit.error = "RuntimeError"
          /\ fit.odrCalls = <<>> /\ fit.orthRegCoeffs = None /\ fit.ret = None
    /\ (fit.nKeep # NotCounted /\ fit.pc = "done") =>
          /\ fit.ret = fit.orthRegCoeffs /\ fit.ret # None
          /\ \A k \in DOMAIN fit.odrCalls : Cardinality(fit.odrCalls[k].keep) >= Order

\* the final check of a call on five finite points finds none left
C5_Witness ==
    /\ fit.pc = "error" /\ fit.error = "RuntimeError"
    /\ fit.nKeep # NotCounted /\ fit.nKeep < Order
    /\ Len(fit.olsFits) = fit.in.iterations /\ Len(fit.pts) >= 5

(***************************************************************************)
(* Specification of colorColorPolyFitPlot calls on chosen data: points on  *)
(* a straight line, ten points on a line with one gross outlier, and       *)
(* scattered points, each with well-formed and malformed fit regions.      *)
(***************************************************************************)
\* the points (x, a + b*x) for x = lo..hi
LineArray(a, b, lo, hi) ==
    [i \in 1..(hi - lo + 1) |-> Pt(Fin(lo + i - 1), Fin(a + b * (lo + i - 1)))]

NoiselessArrays ==
    {LineArray(0, 1, 0, 9), LineArray(0, 1, 1, 5), LineArray(0, 1, 3, 4),
     LineArray(7, -1, 1, 5), LineArray(2, 0, 0, 4), LineArray(1, 2, 0, 3)}

\* ten points on y = x and the outlier (5, 100)
OutlierArrays ==
    {LineArray(0, 1, lo, lo + 9) \o <<Pt(Fin(5), Fin(100))>> : lo \in {0, 1}}

ScatteredArrays ==
    {<<Pt(Fin(3), Fin(2)), Pt(Fin(4), Fin(3)), Pt(Fin(3), Fin(0)),
       Pt(Fin(1), Fin(1)), Pt(Fin(5), Fin(2)), Pt(Fin(0), Fin(3))>>,
     <<Pt(Fin(3), Fin(2)), Pt(Fin(4), Fin(3)), Pt(Fin(3), Fin(0)), Pt(Fin(4), Fin(2)),
       Pt(Fin(1), Fin(1)), Pt(Fin(5), Fin(2)), Pt(Fin(6), Fin(0)), Pt(NaN, Fin(1))>>}

\* a range with its bounds exchanged, or an upper line below the lower one
MalformedRegions ==
    {Region(<<5, 2>>, NoPair, NoPair, NoPair),
     Region(<<2, 5>>, <<4, 0>>, NoPair, NoPair),
     Region(NoPair, NoPair, <<2, -1>>, <<7, -1>>)}

CaseRegions ==
    Regions \cup MalformedRegions
        \cup {Region(<<-1, 11>>, <<-1, 11>>, <<1, 1>>, <<-1, 1>>)}

CaseInputs ==
    {[points |-> a, xFitRange |-> r.xFitRange, yFitRange |-> r.yFitRange,
      fitLineUpper |-> r.fitLineUpper, fitLineLower |-> r.fitLineLower,
      iterations |-> n, closeToVertical |-> v] :
        a \in NoiselessArrays \cup OutlierArrays \cup ScatteredArrays,
        r \in CaseRegions, n \in 1..MaxIterations, v \in BOOLEAN}

InitCases ==
    /\ fit \in {FitCall(in) : in \in CaseInputs}
    /\ quantity = <<>>
    /\ selection = <<>>
    /\ forcedMean = None
    /\ stats = None
    /\ dist = NoDist
    /\ batch = NoBatch
    /\ repeat = None
    /\ sysErr = NoSys
    /\ plotAll = NoPlotAll
    /\ targetList = NoTargetList
    /\ srcMatches = NoSrcMatches

SpecCases == InitCases /\ [][NextFit]_vars

\* the region of the call is malformed
Malformed(in) ==
    \/ in.xFitRange # NoPair /\ in.xFitRange[1] > in.xFitRange[2]
    \/ in.yFitRange # NoPair /\ in.yFitRange[1] > in.yFitRange[2]
    \/ /\ in.fitLineUpper # NoPair /\ in.fitLineLower # NoPair
       /\ in.fitLineUpper[2] = in.fitLineLower[2]
       /\ in.fitLineUpper[1] < in.fitLineLower[1]

\* every input point is finite and all lie on one line y = a + b*x
Noiseless ==
    /\ Len(fit.pts) = Len(fit.in.points)
    /\ Collinear(fit.pts, DOMAIN fit.pts)
    /\ \E i, j \in DOMAIN fit.pts : fit.pts[i].x # fit.pts[j].x

\* the call has begun, without closeToVertical, on noiseless data that are
\* all inside the fit region
NoiselessCall ==
    /\ fit.pc # "start" /\ ~fit.in.closeToVertical
    /\ Noiseless /\ RegionSelect = DOMAIN fit.pts

\* the call has begun, without closeToVertical or a fit region, on ten
\* points of y = x and the outlier, which is the last point
OutlierCall ==
    /\ fit.pc # "start" /\ ~fit.in.closeToVertical
    /\ fit.in.points \in OutlierArrays
    /\ RegionSelect = DOMAIN fit.pts

(***************************************************************************)
(* C16 as claimed: a call with a malformed fit region ends with an         *)
(* invalid-region error before any selection, least-squares fit or         *)
(* orthogonal regression is made.                                          *)
(***************************************************************************)
C16_MalformedRegionRejected ==
    (fit.pc # "start" /\ Malformed(fit.in)) =>
        /\ fit.pc = "error" /\ fit.error = "InvalidRegionError"
        /\ fit.olsFits = <<>> /\ fit.odrCalls = <<>>

(***************************************************************************)
(* C17 as claimed: on noiseless data inside the fit region every residual  *)
(* of every least-squares fit is 0, the clip is 0, no point is rejected in *)
(* any iteration, the final keep mask holds every point, and the call      *)
(* returns a curve from which every point has distance 0.                  *)
(***************************************************************************)
C17_NoiselessKeepsAll ==
    NoiselessCall =>
        /\ \A j \in DOMAIN fit.olsFits :
              /\ fit.olsFits[j] = DOMAIN fit.pts
              /\ \A i \in DOMAIN fit.pts :
                    ResidualNum(polyfit(fit.pts, fit.olsFits[j]), fit.pts[i]) = 0
              /\ ClipOfIteration(j) = DOMAIN fit.pts
        /\ fit.nKeep # NotCounted => fit.keep = DOMAIN fit.pts
        /\ fit.pc # "error"
        /\ fit.pc = "done" =>
              \A i \in DOMAIN fit.pts :
                  DistanceOf(fit.ret, fit.pts[i].x, fit.pts[i].y, 1).d2.num = 0

(***************************************************************************)
(* C18 as claimed: for ten points on y = x and the outlier (5, 100), after *)
(* the first iteration the keep mask holds the ten points and not the      *)
(* outlier, and the call goes on to complete.                              *)
(***************************************************************************)
C18_OutlierRejectedFitCompletes ==
    OutlierCall =>
        /\ Len(fit.olsFits) >= 1 =>
              /\ Len(fit.pts) \notin fit.keep
              /\ fit.keep \cap fit.select = (DOMAIN fit.pts) \ {Len(fit.pts)}
        /\ fit.pc # "error"

(***************************************************************************)
(* C23: a call with iterations = n makes at most n orthogonal regressions, *)
(* and exactly n when it returns.  The first is on the final keep set of   *)
(* the least-squares stage, seeded with the reversed coefficients of the   *)
(* initial guess (the final least-squares fit, or the forced guess with    *)
(* closeToVertical); each later one is seeded with the reversed            *)
(* coefficients returned by the one before it; the coefficients returned   *)
(* by the call are those of the last.                                      *)
(***************************************************************************)
C23_OdrRoundsInOrder ==
    LET calls == fit.odrCalls
    IN /\ Len(calls) <= fit.in.iterations
       /\ fit.pc \in {"start", "ols", "density", "odr"} => calls = <<>>
       /\ fit.pc = "odrLoop" => Len(calls) = fit.ii + 1
       /\ calls # <<>> =>
             /\ calls[1].keep = fit.keep
             /\ calls[1].guess = Reversed(fit.poly)
             /\ ~fit.in.closeToVertical =>
                   /\ fit.poly = polyfit(fit.pts, fit.keep)
                   /\ fit.keep = OlsKeeps[Len(OlsKeeps)]
       /\ \A k \in DOMAIN calls :
             /\ calls[k].coeffs \in orthogonalRegression(fit.pts, calls[k].keep, calls[k].guess)
             /\ k > 1 => calls[k].guess = Reversed(calls[k - 1].coeffs)
       /\ fit.pc = "done" =>
             /\ Len(calls) = fit.in.iterations
             /\ fit.ret = calls[Len(calls)].coeffs

\* a call with three iterations has returned the coefficients of its third
\* orthogonal regression, which are not those of the first
C23_Witness ==
    /\ fit.pc = "done" /\ fit.in.iterations = 3 /\ ~fit.in.closeToVertical
    /\ Len(fit.odrCalls) = 3
    /\ fit.odrCalls[3].guess # fit.odrCalls[1].guess
    /\ fit.ret # fit.odrCalls[1].coeffs

\* the (intercept, slope) pairs among the arguments of the call, as seeds
ArgumentPairs ==
    {Coeffs(1, <<a[1], a[2]>>) :
        a \in {fit.in.xFitRange, fit.in.yFitRange,
                fit.in.fitLineUpper, fit.in.fitLineLower} \ {NoPair}}

(***************************************************************************)
(* C24 as claimed: with closeToVertical no least-squares fit and no        *)
(* residual clipping precede the first orthogonal regression, its keep set *)
(* is exactly the finite points inside the unpadded fit region, and its    *)
(* seed is a steep slope and intercept specified by the caller, that is,   *)
(* given among the arguments of the call.                                  *)
(***************************************************************************)
C24_CallerSpecifiedGuess ==
    (fit.in.closeToVertical /\ fit.odrCalls # <<>>) =>
        /\ fit.olsFits = <<>> /\ fit.nKeep = NotCounted
        /\ fit.odrCalls[1].keep = RegionSelect
        /\ fit.odrCalls[1].guess \in ArgumentPairs

(***************************************************************************)
(* C24 as amended: with closeToVertical no least-squares fit and no        *)
(* residual clipping precede the first orthogonal regression, its keep set *)
(* is exactly the finite points inside the unpadded fit region, and its    *)
(* seed is fixed by the code: slope 10 and intercept                       *)
(* -10*(xFitRange[0] + (xFitRange[1] - xFitRange[0])/3).  Without an       *)
(* xFitRange the call ends with TypeError before any regression.           *)
(***************************************************************************)
C24_VerticalSkipsOls ==
    (fit.in.closeToVertical /\ fit.pc # "start") =>
        /\ fit.olsFits = <<>> /\ fit.nKeep = NotCounted
        /\ fit.keep = RegionSelect
        /\ IF fit.in.xFitRange = NoPair
           THEN fit.pc = "error" /\ fit.error = "TypeError" /\ fit.odrCalls = <<>>
           ELSE /\ fit.poly.c[1] = 10 * fit.poly.den
                /\ 3 * fit.poly.c[2]
                     = -10 * fit.poly.den * (2 * fit.in.xFitRange[1] + fit.in.xFitRange[2])
                /\ fit.odrCalls # <<>> =>
                      /\ fit.odrCalls[1].keep = RegionSelect
                      /\ fit.odrCalls[1].guess = Reversed(fit.poly)

\* a closeToVertical call has returned; a finite point outside the region
\* was not in the keep set of the first regression
C24_Witness ==
    /\ fit.in.closeToVertical /\ fit.pc = "done"
    /\ fit.odrCalls[1].keep # DOMAIN fit.pts
    /\ Cardinality(fit.odrCalls[1].keep) >= 3

(***************************************************************************)
(* C25 as claimed: a least-squares iteration that starts with at least     *)
(* order + 1 finite points of the region in its keep set leaves a          *)
(* non-empty keep set to the next iteration: its clip result intersected   *)
(* with the region holds at least one point.                               *)
(***************************************************************************)
C25_ClipNeverRejectsAll ==
    \A j \in DOMAIN fit.olsFits :
        Cardinality(fit.olsFits[j]) >= Order + 1 =>
            ClipOfIteration(j) \cap fit.select # {}

(***************************************************************************)
(* C26 as claimed: every orthogonal regression is given at least order     *)
(* points, and the count check has been made before each one, the first    *)
(* included, with closeToVertical as without.                              *)
(***************************************************************************)
C26_CountCheckBeforeEachOdr ==
    /\ \A k \in DOMAIN fit.odrCalls : Cardinality(fit.odrCalls[k].keep) >= Order
    /\ fit.odrCalls # <<>> => fit.nKeep # NotCounted

(***************************************************************************)
(* C26 as amended: every orthogonal regression is given at least order     *)
(* points.  The count check precedes the first one only without            *)
(* closeToVertical; with closeToVertical no count is taken, and a keep set *)
(* of fewer than two points ends the call in the density estimate with     *)
(* ValueError.  Every later one follows the count check of its round.      *)
(***************************************************************************)
C26_EnoughPointsEachOdr ==
    /\ \A k \in DOMAIN fit.odrCalls : Cardinality(fit.odrCalls[k].keep) >= Order
    /\ fit.odrCalls # <<>> => (fit.nKeep # NotCounted <=> ~fit.in.closeToVertical)
    /\ (fit.nKeep # NotCounted /\ fit.pc # "error") => fit.nKeep >= Order
    /\ (fit.in.closeToVertical /\ fit.pc \notin {"start", "density"}
           /\ Cardinality(RegionSelect) < 2) =>
          /\ fit.pc = "error" /\ fit.error \in {"ValueError", "TypeError"}
          /\ fit.odrCalls = <<>>

\* a closeToVertical call has made two regressions and no count of the keep
\* set preceded the first
C26_Witness ==
    /\ fit.in.closeToVertical /\ Len(fit.odrCalls) >= 2
    /\ fit.nKeep = NotCounted
    /\ fit.odrCalls[2].keep # fit.odrCalls[1].keep

(***************************************************************************)
(* Specification of one curve-distance evaluation                          *)
(***************************************************************************)
\* most rows in the catalog
MaxCat == 2

\* the magnitudes a catalog entry takes in each band
Mags == <<Fin(0), Fin(1), NaN>>

\* row k of the pool: the magnitudes in band1, band2, band3
RowOf(k) == <<Mags[(k \div 9) + 1], Mags[((k \div 3) % 3) + 1], Mags[(k % 3) + 1]>>

\* catalogs are enumerated up to permutation: the evaluation is per row
Catalogs ==
    UNION {{[i \in 1..n |-> RowOf(c[i])] :
              c \in {f \in [1..n -> 0..26] :
                        \A i \in 1..n : i < n => f[i] <= f[i + 1]}} : n \in 0..MaxCat}

\* the curves: y = x, the constant y = 1, y = -2x + 1, y = x/2
Curves == {Coeffs(1, <<1, 0>>), Coeffs(1, <<0, 1>>), Coeffs(1, <<-2, 1>>), Coeffs(2, <<1, 0>>)}

Bounds(lo, hi, up, low) ==
    [xMin |-> lo, xMax |-> hi, fitLineUpper |-> up, fitLineLower |-> low]

\* the optional bounds: none, each alone, all together
BoundSets ==
    {Bounds(None, None, NoPair, NoPair),
     Bounds(Fin(0), None, NoPair, NoPair),
     Bounds(None, Fin(0), NoPair, NoPair),
     Bounds(None, None, <<0, 1>>, NoPair),
     Bounds(None, None, NoPair, <<-1, 1>>),
     Bounds(Fin(-1), Fin(0), <<1, 1>>, <<-1, 0>>)}

UnitScales == {1, 1000}

DistInputs ==
    {[catalog |-> c, poly |-> p, unitScale |-> s, xMin |-> b.xMin, xMax |-> b.xMax,
      fitLineUpper |-> b.fitLineUpper, fitLineLower |-> b.fitLineLower] :
        c \in Catalogs, p \in Curves, s \in UnitScales, b \in BoundSets}

InitDist ==
    /\ dist \in {[pc |-> "call", in |-> in, out |-> None] : in \in DistInputs}
    /\ quantity = <<>>
    /\ selection = <<>>
    /\ forcedMean = None
    /\ stats = None
    /\ fit = NoFit
    /\ batch = NoBatch
    /\ repeat = None
    /\ sysErr = NoSys
    /\ plotAll = NoPlotAll
    /\ targetList = NoTargetList
    /\ srcMatches = NoSrcMatches

\* ColorColorDistance(...)(catalog)
ColorColorDistanceCall ==
    /\ dist.pc = "call"
    /\ LET out == ColorColorDistance(dist.in)
       IN dist' = [dist EXCEPT !.pc = out.pc, !.out = out]
    /\ UNCHANGED <<quantity, selection, forcedMean, stats, fit, batch, repeat, sysErr,
                   plotAll, targetList, srcMatches>>

\* the locus-quality evaluation inside colorColorPolyFitPlot: xx, yy are the
\* finite colours and kept is the keep mask the fit ended with
LocusQualityCall ==
    /\ dist.pc = "call"
    /\ LET cat == dist.in.catalog
           pts == FinitePoints([i \in DOMAIN cat |->
                                   [x |-> ColourX(cat[i]), y |-> ColourY(cat[i])]])
       IN \E kept \in SUBSET DOMAIN pts :
            LET out == LocusQuality(dist.in, pts, kept)
            IN dist' = [dist EXCEPT !.pc = out.pc, !.out = out]
    /\ UNCHANGED <<quantity, selection, forcedMean, stats, fit, batch, repeat, sysErr,
                   plotAll, targetList, srcMatches>>

NextDist ==
    \/ ColorColorDistanceCall
    \/ LocusQualityCall

SpecDist == InitDist /\ [][NextDist]_vars

Evaluated == dist.pc = "done"

\* y >= P(x), y > P(x) and y < P(x) for entry i of the evaluated arrays
OnOrAbove(i) ==
    dist.out.yy[i].num * dist.in.poly.den >= PolyValNum(dist.in.poly, dist.out.xx[i].num)

Above(i) ==
    dist.out.yy[i].num * dist.in.poly.den > PolyValNum(dist.in.poly, dist.out.xx[i].num)

Below(i) ==
    dist.out.yy[i].num * dist.in.poly.den < PolyValNum(dist.in.poly, dist.out.xx[i].num)

\* the number sign * sqrt(d2) * scale is > 0, < 0
Positive(r) == ~r.nan /\ r.d2.num > 0 /\ r.sign * r.scale > 0

Negative(r) == ~r.nan /\ r.d2.num > 0 /\ r.sign * r.scale < 0

Zero(r) == ~r.nan /\ r.d2.num = 0

(***************************************************************************)
(* C7: ColorColorDistance returns an array as long as the catalog; entry i *)
(* is NaN exactly when a colour of row i is not finite, or x < xMin, or    *)
(* x > xMax, or the point is above the upper or below the lower bounding   *)
(* line, each bound applying only when given; every other entry is a       *)
(* finite signed distance.                                                 *)
(***************************************************************************)
C7_NaNExactlyOutside ==
    (Evaluated /\ dist.out.by = "ColorColorDistance") =>
        LET in == dist.in
            res == dist.out.result
        IN /\ DOMAIN res = DOMAIN in.catalog
           /\ \A i \in DOMAIN res :
                LET x == Sub(in.catalog[i][1], in.catalog[i][2])
                    y == Sub(in.catalog[i][2], in.catalog[i][3])
                IN /\ res[i].nan <=>
                        \/ x.nan \/ y.nan
                        \/ (in.xMin # None /\ x.num < in.xMin.num)
                        \/ (in.xMax # None /\ x.num > in.xMax.num)
                        \/ (in.fitLineUpper # NoPair
                              /\ y.num > in.fitLineUpper[1] + in.fitLineUpper[2] * x.num)
                        \/ (in.fitLineLower # NoPair
                              /\ y.num < in.fitLineLower[1] + in.fitLineLower[2] * x.num)
                   /\ ~res[i].nan =>
                        /\ ~res[i].d2.nan /\ res[i].d2.num >= 0 /\ res[i].d2.den > 0
                        /\ res[i].sign \in {1, -1}

\* a catalog with all four bounds given: one row is evaluated, one is finite
\* and above the upper line only
C7_Witness ==
    /\ Evaluated /\ dist.out.by = "ColorColorDistance"
    /\ dist.in.fitLineUpper # NoPair /\ dist.in.xMin # None
    /\ \E i, j \in DOMAIN dist.out.result :
        /\ ~dist.out.result[i].nan
        /\ dist.out.result[j].nan /\ ~dist.out.xx[j].nan /\ ~dist.out.yy[j].nan
        /\ ~Gt(dist.in.xMin, dist.out.xx[j]) /\ ~Gt(dist.out.xx[j], dist.in.xMax)
        /\ dist.out.yy[j].num >= dist.in.fitLineLower[1]
                                  + dist.in.fitLineLower[2] * dist.out.xx[j].num

(***************************************************************************)
(* C8: in both evaluators the distance of every evaluated point is >= 0    *)
(* when y >= P(x) and <= 0 when y < P(x); it is strictly positive when     *)
(* y > P(x) and strictly negative when y < P(x).                           *)
(***************************************************************************)
C8_SignConvention ==
    Evaluated =>
        \A i \in dist.out.kept :
            LET r == dist.out.result[i]
            IN /\ OnOrAbove(i) => (Positive(r) \/ Zero(r))
               /\ Above(i) => Positive(r)
               /\ Below(i) => Negative(r)

\* a locus-quality evaluation with a point above and a point below the curve
C8_Witness ==
    /\ Evaluated /\ dist.out.by = "LocusQuality"
    /\ \E i, j \in dist.out.kept :
        /\ Above(i) /\ Positive(dist.out.result[i])
        /\ Below(j) /\ Negative(dist.out.result[j])

OffsetNum(i) ==
    dist.out.yy[i].num * dist.in.poly.den - PolyValNum(dist.in.poly, dist.out.xx[i].num)

(***************************************************************************)
(* C19: for a straight line P(x) = a + b*x, in both evaluators the result  *)
(* for every evaluated point is the signed point-to-line distance in       *)
(* units of unitScale: its square is (y - a - b*x)^2/(1 + b^2) and its     *)
(* sign is that of y - P(x).                                               *)
(***************************************************************************)
C19_ClosedFormLineDistance ==
    Evaluated =>
        \A i \in dist.out.kept :
            LET r == dist.out.result[i]
                p == dist.in.poly
            IN /\ ~r.nan /\ r.scale = dist.in.unitScale
               /\ Eq(r.d2, Rat(OffsetNum(i) * OffsetNum(i), p.den * p.den + p.c[1] * p.c[1]))
               /\ OffsetNum(i) > 0 => r.sign = 1
               /\ OffsetNum(i) < 0 => r.sign = -1

\* ColorColorDistance has evaluated, against a sloping line, a point above
\* and a point below it
C19_Witness ==
    /\ Evaluated /\ dist.out.by = "ColorColorDistance"
    /\ dist.in.poly.c[1] # 0
    /\ \E i, j \in dist.out.kept :
          /\ OffsetNum(i) > 0 /\ dist.out.result[i].sign = 1
          /\ OffsetNum(j) < 0 /\ dist.out.result[j].sign = -1
          /\ dist.out.result[i].d2.num > 0 /\ dist.out.result[j].d2.num > 0

(***************************************************************************)
(* ColorAnalysisTask.plotStarColorColor, called by run once per flux       *)
(* column.  The body is four blocks, each behind a test of the filters     *)
(* present; a block is a sequence of colorColorPolyFitPlot calls followed  *)
(* by one ColorColorDistance analysis.  No call is inside a try statement. *)
(***************************************************************************)
\* for fluxColumn in ["base_PsfFlux_flux", "modelfit_CModel_flux"]
FluxColumns == <<"base_PsfFlux_flux", "modelfit_CModel_flux">>

Step(name, locus, kind, needs) ==
    [name |-> name, locus |-> locus, kind |-> kind, needs |-> needs]

\* the calls of the body in program order, with the filters their block asks for
Steps ==
    <<Step("gri-wFit", "gri", "fit", {"HSC-G", "HSC-R", "HSC-I"}),
      Step("gri-xFit", "gri", "fit", {"HSC-G", "HSC-R", "HSC-I"}),
      Step("gri", "gri", "fit", {"HSC-G", "HSC-R", "HSC-I"}),
      Step("griDistance", "gri", "distance", {"HSC-G", "HSC-R", "HSC-I"}),
      Step("riz-yFit", "riz", "fit", {"HSC-R", "HSC-I", "HSC-Z"}),
      Step("riz", "riz", "fit", {"HSC-R", "HSC-I", "HSC-Z"}),
      Step("rizDistance", "riz", "distance", {"HSC-R", "HSC-I", "HSC-Z"}),
      Step("izy", "izy", "fit", {"HSC-I", "HSC-Z", "HSC-Y"}),
      Step("izyDistance", "izy", "distance", {"HSC-I", "HSC-Z", "HSC-Y"}),
      Step("z9y", "z9y", "fit", {"HSC-Z", "NB0921", "HSC-Y"}),
      Step("z9yDistance", "z9y", "distance", {"HSC-Z", "NB0921", "HSC-Y"})>>

\* filters.issuperset(set((...))) for the block of step s
BlockEntered(filters, s) == Steps[s].needs \subseteq filters

\* the position after step s of the body
Advance(b) == [b EXCEPT !.step = @ + 1]

\* a colorColorPolyFitPlot call of the body: its RuntimeError is not caught
\* and leaves plotStarColorColor and run
FitStep(b) ==
    IF ~BlockEntered(b.filters, b.step) THEN Advance(b)
    ELSE IF <<b.col, b.step>> \in b.raises
    THEN [b EXCEPT !.pc = "aborted", !.error = "RuntimeError"]
    ELSE Advance([b EXCEPT !.performed = @ \cup {<<b.col, b.step>>}])

\* self.AnalysisClass(combined, ColorColorDistance(...), ...).plotAll(...)
DistanceStep(b) ==
    IF ~BlockEntered(b.filters, b.step) THEN Advance(b)
    ELSE Advance([b EXCEPT !.performed = @ \cup {<<b.col, b.step>>}])

BatchFit ==
    /\ batch.pc = "run"
    /\ batch.step \in DOMAIN Steps
    /\ Steps[batch.step].kind = "fit"
    /\ batch' = FitStep(batch)
    /\ UNCHANGED <<quantity, selection, forcedMean, stats, fit, dist, repeat, sysErr,
                   plotAll, targetList, srcMatches>>

BatchDistance ==
    /\ batch.pc = "run"
    /\ batch.step \in DOMAIN Steps
    /\ Steps[batch.step].kind = "distance"
    /\ batch' = DistanceStep(batch)
    /\ UNCHANGED <<quantity, selection, forcedMean, stats, fit, dist, repeat, sysErr,
                   plotAll, targetList, srcMatches>>

\* plotStarColorColor returns None and the loop of run takes the next column
BatchNextColumn ==
    /\ batch.pc = "run"
    /\ batch.step = Len(Steps) + 1
    /\ batch.col < Len(FluxColumns)
    /\ batch' = [batch EXCEPT !.col = @ + 1, !.step = 1]
    /\ UNCHANGED <<quantity, selection, forcedMean, stats, fit, dist, repeat, sysErr,
                   plotAll, targetList, srcMatches>>

\* the last plotStarColorColor call returns and run ends
BatchReturn ==
    /\ batch.pc = "run"
    /\ batch.step = Len(Steps) + 1
    /\ batch.col = Len(FluxColumns)
    /\ batch' = [batch EXCEPT !.pc = "done"]
    /\ UNCHANGED <<quantity, selection, forcedMean, stats, fit, dist, repeat, sysErr,
                   plotAll, targetList, srcMatches>>

(***************************************************************************)
(* Specification of one batch of locus fits                                *)
(***************************************************************************)
\* most colorColorPolyFitPlot calls of a batch that run out of data
MaxFailures == 1

AllFilters == {"HSC-G", "HSC-R", "HSC-I", "HSC-Z", "HSC-Y", "NB0921"}

\* run goes on with at least three filters, the flux filter HSC-I among them
FilterSets == {F \in SUBSET AllFilters : "HSC-I" \in F /\ Cardinality(F) >= 3}

FitSteps == {s \in DOMAIN Steps : Steps[s].kind = "fit"}

\* the calls that end in "not enough good data points", a property of the data
FailureSets ==
    {R \in SUBSET ((DOMAIN FluxColumns) \X FitSteps) : Cardinality(R) <= MaxFailures}

InitBatch ==
    /\ batch \in {[pc |-> "run", filters |-> F, raises |-> R, col |-> 1, step |-> 1,
                   performed |-> {}, error |-> ""] : F \in FilterSets, R \in FailureSets}
    /\ quantity = <<>>
    /\ selection = <<>>
    /\ forcedMean = None
    /\ stats = None
    /\ fit = NoFit
    /\ dist = NoDist
    /\ repeat = None
    /\ sysErr = NoSys
    /\ plotAll = NoPlotAll
    /\ targetList = NoTargetList
    /\ srcMatches = NoSrcMatches

NextBatch ==
    \/ BatchFit
    \/ BatchDistance
    \/ BatchNextColumn
    \/ BatchReturn

SpecBatch == InitBatch /\ [][NextBatch]_vars

\* the batch has ended, by returning or by an exception
Ended == batch.pc \in {"done", "aborted"}

\* the calls of the loci whose filters are present and none of whose fits fails
UnaffectedCalls ==
    {cs \in (DOMAIN FluxColumns) \X (DOMAIN Steps) :
        /\ BlockEntered(batch.filters, cs[2])
        /\ \A r \in batch.raises :
              ~(r[1] = cs[1] /\ Steps[r[2]].locus = Steps[cs[2]].locus)}

(***************************************************************************)
(* C6 as claimed: a failed colorColorPolyFitPlot call is fatal to that     *)
(* call only: when the batch has ended, every fit and distance analysis of *)
(* the loci that had no failing call has been performed.                   *)
(***************************************************************************)
C6_FailureSkipsOneLocus ==
    Ended => UnaffectedCalls \subseteq batch.performed

(***************************************************************************)
(* Analysis.plotAll: Analysis.stats, the plots' reads of the statistics,   *)
(* and Enforcer.__call__.                                                   *)
(*                                                                         *)
(* self.data has one Data per label of the labeller; a Data holds the      *)
(* quantity of the good objects of that label, and the mask mag <          *)
(* magThreshold over them.  The analysis is built without errFunc, so      *)
(* self.quantityError is None.  A dictionary of Stats is a record          *)
(* [isNone, keys, at]: the set of its keys and its value at each key.      *)
(***************************************************************************)
\* StarGalaxyLabeller.labels
Labels == {"star", "galaxy"}

\* stats = {}
EmptyDict == [isNone |-> FALSE, keys |-> {}, at |-> [n \in Labels |-> None]]

\* stats = None
NoneDict == [isNone |-> TRUE, keys |-> {}, at |-> [n \in Labels |-> None]]

\* stats[name] = value
DictSet(d, name, value) ==
    [isNone |-> FALSE, keys |-> d.keys \cup {name},
     at |-> [n \in Labels |-> IF n = name THEN value ELSE d.at[n]]]

\* the objects of a Data: data.quantity and the mask data.mag < magThreshold
DataQuantity(objs) == [i \in DOMAIN objs |-> objs[i][1]]

DataBright(objs) == [i \in DOMAIN objs |-> objs[i][2]]

\* if len(data.mag) == 0: continue
SkipsEmpty(objs) == Len(objs) = 0

\* one iteration of the loop of Analysis.stats, for the label name
StatsOfLabel(d, name, objs, fm) ==
    IF SkipsEmpty(objs) THEN d
    ELSE LET stored == DictSet(d, name,
                               calculateStats(DataQuantity(objs), DataBright(objs), fm))
         IN \* if len(stats) == 0: stats = None, tested after the assignment
            IF Cardinality(stored.keys) = 0 THEN NoneDict ELSE stored

\* stats = self.stats(forcedMean=forcedMean), first statement: stats = {}
StatsBegin ==
    /\ plotAll.pc = "start"
    /\ plotAll' = [plotAll EXCEPT !.pc = "stats", !.stats = EmptyDict,
                                  !.todo = Labels]
    /\ UNCHANGED <<quantity, selection, forcedMean, stats, repeat, fit, dist, batch,
                   sysErr, targetList, srcMatches>>

\* for name, data in self.data.iteritems(): one iteration, in dictionary order
StatsIteration ==
    /\ plotAll.pc = "stats"
    /\ \E name \in plotAll.todo :
          plotAll' =
             IF plotAll.stats.isNone /\ ~SkipsEmpty(plotAll.data[name])
             THEN \* stats[name] = ... on None
                  [plotAll EXCEPT !.pc = "raised", !.error = "TypeError"]
             ELSE [plotAll EXCEPT
                      !.todo = @ \ {name},
                      !.stats = StatsOfLabel(@, name, plotAll.data[name],
                                             plotAll.forcedMean)]
    /\ UNCHANGED <<quantity, selection, forcedMean, stats, repeat, fit, dist, batch,
                   sysErr, targetList, srcMatches>>

\* return stats
StatsReturn ==
    /\ plotAll.pc = "stats"
    /\ plotAll.todo = {}
    /\ plotAll' = [plotAll EXCEPT !.pc = "plots"]
    /\ UNCHANGED <<quantity, selection, forcedMean, stats, repeat, fit, dist, batch,
                   sysErr, targetList, srcMatches>>

\* the plots: each one runs
\*   if stats is not None: self.annotateAxes(plt, axes, stats, "star", ...)
\* and annotateAxes reads stats[dataSet]; nothing else of the plots is modelled
Plots ==
    /\ plotAll.pc = "plots"
    /\ plotAll' =
          IF ~plotAll.stats.isNone /\ "star" \notin plotAll.stats.keys
          THEN [plotAll EXCEPT !.pc = "raised", !.error = "KeyError"]
          ELSE [plotAll EXCEPT !.pc = "enforce"]
    /\ UNCHANGED <<quantity, selection, forcedMean, stats, repeat, fit, dist, batch,
                   sysErr, targetList, srcMatches>>

\* getattr(stats[label], ss)
StatOf(st, ss) == IF ss = "stdev" THEN st.stdev ELSE st.mean

\* value <= self.requireGreater[label][ss], value >= self.requireLess[label][ss]
Exceeds(e, value) ==
    IF e.kind = "requireGreater" THEN Le(value, e.limit) ELSE Le(e.limit, value)

\* Enforcer.__call__ with one limit, as every Enforcer of the package has:
\* the exception it raises, "" when it returns
EnforcerOutcome(e, d) ==
    IF d.isNone THEN "TypeError"
    ELSE IF e.label \notin d.keys THEN "KeyError"
    ELSE IF Exceeds(e, StatOf(d.at[e.label], e.ss)) /\ e.doRaise THEN "AssertionError"
    ELSE ""

\* log.warn(text)
EnforcerWarns(e, d) ==
    /\ ~d.isNone
    /\ e.label \in d.keys
    /\ Exceeds(e, StatOf(d.at[e.label], e.ss))

\* if enforcer: enforcer(stats, dataId, log, self.quantityName); return stats
Enforce ==
    /\ plotAll.pc = "enforce"
    /\ plotAll' =
          IF plotAll.enforcer = None THEN [plotAll EXCEPT !.pc = "returned"]
          ELSE LET raised == EnforcerOutcome(plotAll.enforcer, plotAll.stats)
               IN [plotAll EXCEPT
                      !.pc = IF raised = "" THEN "returned" ELSE "raised",
                      !.error = raised,
                      !.warned = EnforcerWarns(plotAll.enforcer, plotAll.stats)]
    /\ UNCHANGED <<quantity, selection, forcedMean, stats, repeat, fit, dist, batch,
                   sysErr, targetList, srcMatches>>

(***************************************************************************)
(* Specification of one plotAll call                                       *)
(***************************************************************************)
\* the largest number of good objects of one label
MaxObjects == 2

\* a good object: its quantity, and whether it is brighter than magThreshold
ObjectPool == {<<Fin(0), TRUE>>, <<Fin(1), TRUE>>, <<Fin(1), FALSE>>}

ObjectArrays == UNION {[1..n -> ObjectPool] : n \in 0..MaxObjects}

\* Enforcer(requireLess={"star": {"stdev": ...}}) and its variants
Enforcers ==
    {None} \cup
    [kind : {"requireGreater", "requireLess"}, label : Labels, ss : {"stdev", "mean"},
     limit : {Rat(1, 4)}, doRaise : BOOLEAN]

InitPlotAll ==
    /\ quantity = <<>>
    /\ selection = <<>>
    /\ forcedMean = None
    /\ stats = None
    /\ repeat = None
    /\ fit = NoFit
    /\ dist = NoDist
    /\ batch = NoBatch
    /\ sysErr = NoSys
    /\ \E data \in [Labels -> ObjectArrays], fm \in {None, Fin(0)}, e \in Enforcers :
          plotAll = [pc |-> "start", data |-> data, forcedMean |-> fm, enforcer |-> e,
                     stats |-> EmptyDict, todo |-> {}, error |-> "", warned |-> FALSE]
    /\ targetList = NoTargetList
    /\ srcMatches = NoSrcMatches

NextPlotAll ==
    \/ StatsBegin
    \/ StatsIteration
    \/ StatsReturn
    \/ Plots
    \/ Enforce

SpecPlotAll == InitPlotAll /\ [][NextPlotAll]_vars

\* the labels of the call that have no objects
EmptyLabels == {n \in Labels : Len(plotAll.data[n]) = 0}

\* a Stats of zeros and NaNs, as calculateStats gives for no data
ZeroOrNaN(st) == st # None /\ st.num = 0 /\ st.total = 0 /\ st.mean.nan /\ st.stdev.nan

\* Analysis.stats has returned
StatsReturned == plotAll.pc \in {"plots", "enforce", "returned"} \/
                 (plotAll.pc = "raised" /\ plotAll.error # "TypeError")

(***************************************************************************)
(* C28 as claimed: a label without objects is not fatal.  Analysis.stats   *)
(* returns None when no label has data and otherwise a dictionary with a   *)
(* zero/NaN Stats for each label without objects, and the call never ends  *)
(* in an exception of a read of stats[label] (KeyError or TypeError).      *)
(***************************************************************************)
C28_DegenerateSampleNonFatal ==
    /\ StatsReturned =>
          IF EmptyLabels = Labels THEN plotAll.stats.isNone
          ELSE \A n \in EmptyLabels :
                  n \in plotAll.stats.keys /\ ZeroOrNaN(plotAll.stats.at[n])
    /\ plotAll.error \notin {"KeyError", "TypeError"}

(***************************************************************************)
(* ColorAnalysisRunner.getTargetList.                                      *)
(*                                                                         *)
(* A data reference is a dataId <<tract, patch, filter>>.  The dictionary  *)
(* tractFilterRefs (tract --> filter --> dataRefs) is a record             *)
(* [keys, filterKeys, at]: the tracts that are keys, for each tract the    *)
(* filters that are keys of its dictionary, and for each tract and filter  *)
(* the patches of the references listed there.                             *)
(***************************************************************************)
Tracts == {0, 1}

Patches == {"1,1", "1,2"}

Filters == {"HSC-G", "HSC-R", "HSC-I"}

\* tractFilterRefs = defaultdict(FilterRefsDict)
NoRefs ==
    [keys |-> {}, filterKeys |-> [t \in Tracts |-> {}],
     at |-> [t \in Tracts |-> [ff \in Filters |-> {}]]]

\* the first loop: tractFilterRefs[tract][filterName].append(patchRef) for
\* every reference whose input file exists
CollectRefs(exists) ==
    [keys |-> {id[1] : id \in exists},
     filterKeys |-> [t \in Tracts |-> {id[3] : id \in {e \in exists : e[1] = t}}],
     at |-> [t \in Tracts |-> [ff \in Filters |->
                {id[2] : id \in {e \in exists : e[1] = t /\ e[3] = ff}}]]]

\* keep = set.intersection of patchesForFilters: the patches every filter of the tract has
FullCoverage(d, t) ==
    {p \in Patches : \A ff \in d.filterKeys[t] : p \in d.at[t][ff]}

\* the tracts whose dictionary has no filter: bad.append(tract)
BadTracts(d) == {t \in d.keys : d.filterKeys[t] = {}}

\* the second loop and "for tract in bad: del tractFilterRefs[tract]"
KeepFullCoverage(d) ==
    [keys |-> d.keys \ BadTracts(d),
     filterKeys |-> d.filterKeys,
     at |-> [t \in Tracts |-> [ff \in Filters |->
                IF t \in d.keys \ BadTracts(d) /\ ff \in d.filterKeys[t]
                THEN d.at[t][ff] \cap FullCoverage(d, t) ELSE d.at[t][ff]]]]

\* numFilters: one for every entry of parsedFilterList, the filters of all the
\* dataIds of the command line, that is a key of the tract's dictionary
NumFilters(idList, d, t) ==
    Cardinality({id \in idList : id[3] \in d.filterKeys[t]})

\* del tractFilterRefs[tract]
DelTract(d, t) ==
    [keys |-> d.keys \ {t},
     filterKeys |-> [u \in Tracts |-> IF u = t THEN {} ELSE d.filterKeys[u]],
     at |-> [u \in Tracts |-> IF u = t THEN [ff \in Filters |-> {}] ELSE d.at[u]]]

\* tractFilterRefs[tract] read on the defaultdict: a missing key is inserted
\* with an empty dictionary
ReadTract(d, t) ==
    IF t \in d.keys THEN d
    ELSE [keys |-> d.keys \cup {t},
          filterKeys |-> [u \in Tracts |-> IF u = t THEN {} ELSE d.filterKeys[u]],
          at |-> [u \in Tracts |-> IF u = t THEN [ff \in Filters |-> {}] ELSE d.at[u]]]

\* the first two loops of getTargetList
TargetCollect ==
    /\ targetList.pc = "start"
    /\ LET collected == CollectRefs(targetList.exists)
           kept      == KeepFullCoverage(collected)
       IN targetList' =
             [targetList EXCEPT
                 !.pc = "filters",
                 !.refs = kept,
                 !.todo = kept.keys,
                 !.warnings = {<<"No input data found for tract", t>> :
                                  t \in BadTracts(collected)}]
    /\ UNCHANGED <<quantity, selection, forcedMean, stats, repeat, fit, dist, batch,
                   sysErr, plotAll, srcMatches>>

\* the third loop, one iteration: for tract in tractFilterRefs
TargetTract ==
    /\ targetList.pc = "filters"
    /\ \E t \in targetList.todo :
          LET d        == targetList.refs
              missing  == {<<"No input data found for filter", id[3], t>> :
                             id \in {i \in targetList.idList :
                                        i[3] \notin d.filterKeys[t]}}
              skip     == NumFilters(targetList.idList, d, t) < 3
              afterDel == IF skip THEN DelTract(d, t) ELSE d
              read     == ReadTract(afterDel, t)
              warned   == targetList.warnings \cup missing \cup
                          (IF skip THEN {<<"Skipping tract", t>>} ELSE {})
          IN targetList' =
                IF read.filterKeys[t] = {}
                THEN \* raise RuntimeError("No suitable datasets found.")
                     [targetList EXCEPT !.pc = "raised", !.refs = read,
                                        !.warnings = warned,
                                        !.error = "No suitable datasets found."]
                ELSE [targetList EXCEPT !.refs = read, !.warnings = warned,
                                        !.todo = @ \ {t}]
    /\ UNCHANGED <<quantity, selection, forcedMean, stats, repeat, fit, dist, batch,
                   sysErr, plotAll, srcMatches>>

\* return [(filterRefs, kwargs) for filterRefs in tractFilterRefs.values()]
TargetReturn ==
    /\ targetList.pc = "filters"
    /\ targetList.todo = {}
    /\ targetList' =
          [targetList EXCEPT
              !.pc = "returned",
              !.targets = {[tract |-> t, filterKeys |-> targetList.refs.filterKeys[t],
                            at |-> targetList.refs.at[t]] : t \in targetList.refs.keys}]
    /\ UNCHANGED <<quantity, selection, forcedMean, stats, repeat, fit, dist, batch,
                   sysErr, plotAll, srcMatches>>

(***************************************************************************)
(* Specification of one getTargetList call                                 *)
(***************************************************************************)
\* --id tract=.. patch=.. filter=HSC-G^HSC-R^HSC-I: the dataIds of the command line
IdLists ==
    {ts \X ps \X Filters : ts \in SUBSET Tracts \ {{}}, ps \in SUBSET Patches \ {{}}}

InitTargetList ==
    /\ quantity = <<>>
    /\ selection = <<>>
    /\ forcedMean = None
    /\ stats = None
    /\ repeat = None
    /\ fit = NoFit
    /\ dist = NoDist
    /\ batch = NoBatch
    /\ sysErr = NoSys
    /\ plotAll = NoPlotAll
    /\ \E idList \in IdLists : \E exists \in SUBSET idList :
          targetList = [pc |-> "start", idList |-> idList, exists |-> exists,
                        refs |-> NoRefs, todo |-> {}, warnings |-> {}, error |-> "",
                        targets |-> {}]
    /\ srcMatches = NoSrcMatches

NextTargetList ==
    \/ TargetCollect
    \/ TargetTract
    \/ TargetReturn

SpecTargetList == InitTargetList /\ [][NextTargetList]_vars

\* the filters of the command line that have data in the tract
FiltersWithData(t) ==
    {id[3] : id \in {e \in targetList.exists : e[1] = t}}

\* the tracts with data in at least one filter, and those with at least three
TractsWithData == {t \in Tracts : FiltersWithData(t) # {}}

SuitableTracts == {t \in Tracts : Cardinality(FiltersWithData(t)) >= 3}

TargetEnded == targetList.pc \in {"returned", "raised"}

(***************************************************************************)
(* C29 as claimed: every tract with data in fewer than three of the        *)
(* requested filters is skipped with a warning, and a skipped tract does   *)
(* not make the call fail: when some tract has data in three filters the   *)
(* call returns, with exactly one target for each such tract.              *)
(***************************************************************************)
C29_SkipsTractKeepsOthers ==
    TargetEnded =>
       /\ \A t \in TractsWithData \ SuitableTracts :
             targetList.pc = "returned" => <<"Skipping tract", t>> \in targetList.warnings
       /\ SuitableTracts # {} =>
             /\ targetList.pc = "returned"
             /\ {tg.tract : tg \in targetList.targets} = SuitableTracts
             /\ Cardinality(targetList.targets) = Cardinality(SuitableTracts)

(***************************************************************************)
(* VisitAnalysisTask.readSrcMatches.                                       *)
(*                                                                         *)
(* A data reference is [ccd, tract, status]: its dataId without the tract  *)
(* (the visit is the same for all), its tract, and what the repository     *)
(* holds for it:                                                           *)
(*   "missing"    the dataset does not exist                               *)
(*   "noUberCal"  the dataset and its matches exist, the uber-calibration  *)
(*                files (wcs_md, fcr_md) of the tract do not               *)
(*   "empty"      joinMatchListWithCatalog returns an empty list           *)
(*   "noSchema"   the matches cannot be unpacked (no schema)               *)
(*   "noMatches"  fewer than 8 matches, one of them without "get"          *)
(*   "matches"    the matches are read                                     *)
(***************************************************************************)
Statuses == {"missing", "noUberCal", "empty", "noSchema", "noMatches", "matches"}

\* the reference is skipped by a continue before its matches are joined
SkippedEarly(ref, doApplyUberCal) ==
    \/ ref.status = "missing"
    \/ doApplyUberCal /\ ref.status = "noUberCal"

\* the exception the iteration of the reference raises, "" when it raises none
RaisedBy(ref) ==
    IF ref.status = "empty" THEN "IndexError"
    ELSE IF ref.status = "noSchema" THEN "RuntimeError"
    ELSE ""

\* if noTractId not in dataIdSubList, without the test
NotYetReadAlways(noTractId, dataIdSubList) == TRUE

\* if noTractId not in dataIdSubList
NotYetRead(noTractId, dataIdSubList) ==
    \A k \in DOMAIN dataIdSubList : dataIdSubList[k] # noTractId

\* catList = []; dataIdSubList = []
ReadBegin ==
    /\ srcMatches.pc = "start"
    /\ srcMatches' = [srcMatches EXCEPT !.pc = "loop", !.next = 1]
    /\ UNCHANGED <<quantity, selection, forcedMean, stats, repeat, fit, dist, batch,
                   sysErr, plotAll, targetList>>

\* for dataRef in dataRefList: one iteration
ReadRef ==
    /\ srcMatches.pc = "loop"
    /\ srcMatches.next <= Len(srcMatches.dataRefList)
    /\ LET i   == srcMatches.next
           ref == srcMatches.dataRefList[i]
       IN srcMatches' =
             IF SkippedEarly(ref, srcMatches.doApplyUberCal)
             THEN [srcMatches EXCEPT !.next = i + 1]
             ELSE IF RaisedBy(ref) # ""
             THEN [srcMatches EXCEPT !.pc = "raised", !.error = RaisedBy(ref)]
             ELSE IF ref.status = "noMatches"
             THEN \* self.log.warn("No matches for ..."); continue
                  [srcMatches EXCEPT !.next = i + 1, !.warnings = @ \cup {i}]
             ELSE [srcMatches EXCEPT
                      !.next = i + 1,
                      !.catList = IF NotYetRead(ref.ccd, srcMatches.dataIdSubList)
                                  THEN Append(@, i) ELSE @,
                      !.dataIdSubList = Append(@, ref.ccd)]
    /\ UNCHANGED <<quantity, selection, forcedMean, stats, repeat, fit, dist, batch,
                   sysErr, plotAll, targetList>>

\* if len(catList) == 0: raise TaskError(...); return concatenateCatalogs(catList)
ReadReturn ==
    /\ srcMatches.pc = "loop"
    /\ srcMatches.next > Len(srcMatches.dataRefList)
    /\ srcMatches' =
          IF Len(srcMatches.catList) = 0
          THEN [srcMatches EXCEPT !.pc = "raised", !.error = "TaskError"]
          ELSE [srcMatches EXCEPT !.pc = "returned"]
    /\ UNCHANGED <<quantity, selection, forcedMean, stats, repeat, fit, dist, batch,
                   sysErr, plotAll, targetList>>

(***************************************************************************)
(* Specification of one readSrcMatches call                                *)
(***************************************************************************)
\* the largest number of data references of one call
MaxRefs == 3

\* the dataIds: two CCDs of a visit that overlaps two tracts
CcdIds == {<<"ccd", 49>>, <<"ccd", 50>>}

TractIds == {8766, 8767}

\* lists of references with distinct dataIds, in every order
DataRefLists ==
    UNION {{l \in [1..n -> [ccd : CcdIds, tract : TractIds, status : Statuses]] :
              \A j, k \in 1..n :
                 (l[j].ccd = l[k].ccd /\ l[j].tract = l[k].tract) => j = k} :
           n \in 0..MaxRefs}

InitSrcMatches ==
    /\ quantity = <<>>
    /\ selection = <<>>
    /\ forcedMean = None
    /\ stats = None
    /\ repeat = None
    /\ fit = NoFit
    /\ dist = NoDist
    /\ batch = NoBatch
    /\ sysErr = NoSys
    /\ plotAll = NoPlotAll
    /\ targetList = NoTargetList
    /\ \E l \in DataRefLists, u \in BOOLEAN :
          srcMatches = [pc |-> "start", dataRefList |-> l, doApplyUberCal |-> u,
                        next |-> 0, catList |-> <<>>, dataIdSubList |-> <<>>,
                        warnings |-> {}, error |-> ""]

NextSrcMatches ==
    \/ ReadBegin
    \/ ReadRef
    \/ ReadReturn

SpecSrcMatches == InitSrcMatches /\ [][NextSrcMatches]_vars

\* the positions in dataRefList of the references of one CCD
RefsOfCcd(c) ==
    {k \in DOMAIN srcMatches.dataRefList : srcMatches.dataRefList[k].ccd = c}

\* the positions whose catalogs are in the result
InResult == {srcMatches.catList[k] : k \in DOMAIN srcMatches.catList}

\* the reference has matches in the repository
HasMatches(k) == srcMatches.dataRefList[k].status \in {"matches", "noUberCal"}

\* the reference has matches and is not skipped for want of the uber-calibration
ReadWithMatches(k) ==
    /\ HasMatches(k)
    /\ ~SkippedEarly(srcMatches.dataRefList[k], srcMatches.doApplyUberCal)

\* the least element of a non-empty set of positions
FirstOf(S) == CHOOSE k \in S : \A j \in S : k <= j

(***************************************************************************)
(* C30 as claimed: the result of a call that returns has at most one       *)
(* catalog for each dataId without tract, and it is the catalog of the     *)
(* first reference of that dataId, in the order of dataRefList, that has   *)
(* matches.                                                                *)
(***************************************************************************)
C30_FirstWithMatchesOnly ==
    srcMatches.pc = "returned" =>
       \A c \in CcdIds :
          LET with == {k \in RefsOfCcd(c) : HasMatches(k)}
          IN /\ Cardinality(InResult \cap RefsOfCcd(c)) <= 1
             /\ with # {} => InResult \cap RefsOfCcd(c) = {FirstOf(with)}

(***************************************************************************)
(* C30 as amended: the result of a call that returns has no catalog twice, *)
(* and for each dataId without tract exactly the catalog of the first      *)
(* reference, in the order of dataRefList, that has matches and was not    *)
(* skipped for missing uber-calibration files; none when there is no such  *)
(* reference.                                                              *)
(***************************************************************************)
C30_FirstReadWithMatchesOnly ==
    srcMatches.pc = "returned" =>
       /\ Cardinality(InResult) = Len(srcMatches.catList)
       /\ \A c \in CcdIds :
             LET read == {k \in RefsOfCcd(c) : ReadWithMatches(k)}
             IN InResult \cap RefsOfCcd(c) =
                   IF read = {} THEN {} ELSE {FirstOf(read)}

\* C30 witness: a call has returned in which a CCD has two references, of
\* different tracts, that were both read with matches, and the result holds the
\* catalog of the earlier one only
C30_Witness ==
    /\ srcMatches.pc = "returned"
    /\ \E c \in CcdIds :
          LET read == {k \in RefsOfCcd(c) : ReadWithMatches(k)}
          IN /\ Cardinality(read) >= 2
             /\ InResult \cap RefsOfCcd(c) = {FirstOf(read)}

====
